---- MODULE Spec2Model ----
(***************************************************************************)
(* Load generation and retry helpers of the test-automation suite:         *)
(*   utils/load_generator.py  LoadGenerator.generate_concurrent_requests,  *)
(*                            LoadGenerator.sustained_load                 *)
(*   utils/test_helpers.py    retry_on_failure                             *)
(*   utils/chaos_monkey.py    ChaosMonkey (SpecChaos: calls one after the  *)
(*                            other; SpecChaosThreads: should_fail called  *)
(*                            from several threads)                        *)
(* Each routine is a state machine of its own (SpecPool and, with a fair   *)
(* scheduler, SpecPoolFair; SpecRetry; SpecSustained); the variables of    *)
(* the routines a specification does not run stay at rest.                 *)
(***************************************************************************)
EXTENDS Integers, Sequences, FiniteSets, TLC

\* ------------------------------------------------------------------ bounds
\* Largest num_requests of one generate_concurrent_requests call.
MaxRequests == 3
\* Largest max_workers given to LoadGenerator (0 is included: misconfigured).
MaxWorkers == 2
\* Largest max_retries given to retry_on_failure (0 and -1 are included).
MaxRetries == 3
\* Largest delay given to retry_on_failure, in seconds.
MaxDelay == 2
\* Largest duration given to sustained_load, in seconds.
MaxDuration == 2
\* Longest time one invocation under sustained_load takes, in half seconds.
MaxOpTicks == 2
\* Most invocations of one sustained_load call that are followed.
MaxResults == 4
\* Largest initial_load and final_load given to ramp_up_load.
MaxLoad == 3
\* Largest ramp_duration given to ramp_up_load, in seconds.
MaxRampDuration == 6
\* Largest step_interval given to ramp_up_load, in seconds.
MaxStepInterval == 2
\* Longest outcome list given to calculate_metrics.
MaxOutcomes == 3
\* Largest response_time in an outcome, in clock ticks.
MaxLatency == 2
\* wait_for_condition: timeout and interval up to these (in clock ticks), a
\* check takes up to MaxCheckTicks, and at most MaxChecks checks are followed.
MaxTimeout == 2
MaxInterval == 2
MaxCheckTicks == 1
MaxChecks == 4
\* random.random() draws k / RandomScale, k in 0 .. RandomScale - 1, and
\* failure_rate is k / RandomScale, k in 0 .. RandomScale.
RandomScale == 2
\* Most calls made on one ChaosMonkey, one after the other.
MaxCalls == 3
\* Most threads sharing one ChaosMonkey, and most should_fail calls of each.
MaxThreads == 2
MaxThreadCalls == 2

\* ------------------------------------------------- values and exceptions
None == "None"

\* What the caller-supplied operation can return.
Values == {"data", "error_report"}

\* Python's builtin exception hierarchy, as far as the operations use it.
BaseOf(t) ==
    CASE t = "ConnectionError"   -> "OSError"
      [] t = "TimeoutError"      -> "OSError"
      [] t = "OSError"           -> "Exception"
      [] t = "ValueError"        -> "Exception"
      [] t = "UnicodeDecodeError" -> "ValueError"
      [] t = "ZeroDivisionError" -> "Exception"
      [] t = "TypeError"         -> "Exception"
      [] t = "Exception"         -> "BaseException"
      [] OTHER                   -> "object"

RECURSIVE Ancestors(_)
Ancestors(t) == IF t \in {"object", "BaseException"} THEN {t}
                ELSE {t} \cup Ancestors(BaseOf(t))

\* isinstance(e, classes): what an `except classes` clause catches.
IsInstance(e, classes) == Ancestors(e.type) \cap classes # {}

NoExc == [type |-> "None", msg |-> ""]
Exc(t, m) == [type |-> t, msg |-> m]

\* str(e): the message the exception was built with.
Str(e) == e.msg

\* Failures an operation raises (the error taxonomy's kinds).
OpExceptions == { Exc("ConnectionError", "Failed to establish connection"),
                  Exc("TimeoutError", "timed out"),
                  Exc("ValueError", "") }

\* One invocation's end: it returns a value or raises.
Returned(v) == [kind |-> "return", val |-> v, exc |-> NoExc]
Raised(e) == [kind |-> "raise", val |-> None, exc |-> e]
NoOutcome == [kind |-> "none", val |-> None, exc |-> NoExc]
OpOutcomes == {Returned(v) : v \in Values} \cup {Raised(e) : e \in OpExceptions}

\* The ends of the invocations run on the worker pool.
PoolExceptions == {Exc("ConnectionError", "Failed to establish connection")}
PoolOutcomes == {Returned("data")} \cup {Raised(e) : e \in PoolExceptions}

\* ------------------------------------------------------------- variables
VARIABLES
    \* generate_concurrent_requests
    num_requests,      \* argument
    max_workers,       \* LoadGenerator.max_workers
    pc,                \* the calling thread's position
    submitted,         \* futures created so far: futures = 1..submitted
    fstate,            \* future -> "none" | "pending" | "running" | "finished"
    foutcome,          \* future -> what its invocation ended with
    work_queue,        \* the executor's FIFO of work items not yet started
    finished_set,      \* as_completed: futures found finished at its call (a set)
    finished_futures,  \* as_completed: the waiter's list, in completion order
    pending,           \* as_completed: futures not yet yielded nor finished
    results,           \* the list being returned
    yielded,           \* the future behind each element of results
    completed,         \* history: futures in the order their invocations ended
    done_at_call,      \* history: the futures as_completed found finished
    raised,            \* the exception that left the call, or NoExc
    \* retry_on_failure
    max_retries,       \* argument
    delay,             \* argument
    exceptions,        \* argument: the classes caught and retried on
    rpc,               \* position: "loop" | "sleep" | "returned" | "raised"
    attempt,           \* the for loop's variable
    last_exception,    \* local
    trace,             \* history: the invocations and sleeps made, in order
    retval,            \* the value returned
    rraised,           \* the exception raised to the caller, or NoExc
    \* sustained_load
    requests_per_second,  \* argument
    duration,          \* argument, in seconds
    instant_op,        \* the operation takes no time and never fails
    spc,               \* position
    now,               \* the clock time.time() reads, in ticks
    interval,          \* local, in ticks
    end_time,          \* local, in ticks
    start_request,     \* local, in ticks
    all_results,       \* the list being returned
    sraised,           \* the exception that left the call, or NoExc
    \* ChaosMonkey
    failure_rate,      \* self.failure_rate, in units of 1 / RandomScale
    failure_count,     \* self.failure_count
    total_requests,    \* self.total_requests
    \* the call being made on the ChaosMonkey, or the last one made
    cpc,               \* "idle" between calls | "decide" | "dispatch" | "invoke"
    ckind,             \* "none" | "should_fail" | "inject_failure" | "get_statistics"
    arg_type,          \* inject_failure's failure_type argument (None if not given)
    ftype,             \* failure_type of the inject_failure frame running
    kwargs,            \* inject_failure's **kwargs
    accepts_kwargs,    \* whether func takes keyword arguments
    cevents,           \* history: what the call did, in order
    cresult,           \* how the call ended
    stats,             \* what get_statistics returned last
    total_before,      \* history: total_requests when the call began
    failures_before,   \* history: failure_count when the call began
    calls,             \* history: calls begun
    decisions,         \* history: should_fail calls made
    positives,         \* history: should_fail calls that returned True
    \* should_fail called from several threads
    tpc,               \* thread -> position in should_fail
    treg,              \* thread -> the value it loaded
    tdecision,         \* thread -> its local should_fail
    tcalls,            \* history: thread -> should_fail calls completed
    ttrue,             \* history: thread -> calls that returned True
    \* ramp_up_load
    initial_load,      \* argument
    final_load,        \* argument
    ramp_duration,     \* argument, in seconds
    step_interval,     \* argument, in seconds
    upc,               \* position
    num_steps,         \* local
    load_increment,    \* local, a float
    current_load,      \* local, a float
    step,              \* loop variable
    ramp_results,      \* local all_results
    ramp_trace,        \* history: batches issued and sleeps made
    uraised,           \* the exception raised to the caller, or NoExc
    \* calculate_metrics
    outcomes,          \* argument results
    mpc,               \* position
    metrics,           \* the dictionary returned
    \* wait_for_condition
    wait_timeout,      \* argument timeout
    wait_interval,     \* argument interval
    error_message,     \* argument
    wpc,               \* position
    start_time,        \* local
    wclock,            \* time.time()
    wtrace,            \* history: the checks and sleeps made, in order
    wresult,           \* how the call ended
    \* generate_async_requests
    async_requests,    \* argument num_requests
    apc,               \* position
    tstate,            \* task -> "none" | "created" | "scheduled" | "done"
    toutcome,          \* task -> what its coroutine ended with
    finish_order,      \* history: tasks in the order they ended
    responses,         \* what asyncio.gather returned
    async_results,     \* the list being returned
    araised,           \* the exception that left the call, or NoExc
    \* APIClient._retry_request
    api_max_retries,   \* APIClient.max_retries
    retry_delay,       \* APIClient.retry_delay
    retry_on_status,   \* argument
    qpc,               \* position
    api_attempt,       \* the for loop's variable attempt
    api_last_exception, \* local last_exception
    api_trace,         \* history: the requests and sleeps made, in order
    api_result         \* how the call ended

poolVars == <<num_requests, max_workers, pc, submitted, fstate, foutcome,
              work_queue, finished_set, finished_futures, pending, results,
              yielded, completed, done_at_call, raised>>

retryVars == <<max_retries, delay, exceptions, rpc, attempt, last_exception,
               trace, retval, rraised>>

sustVars == <<requests_per_second, duration, instant_op, spc, now, interval,
              end_time, start_request, all_results, sraised>>

monkeyVars == <<failure_rate, failure_count, total_requests>>

callVars == <<cpc, ckind, arg_type, ftype, kwargs, accepts_kwargs, cevents,
              cresult, stats, total_before, failures_before, calls,
              decisions, positives>>

threadVars == <<tpc, treg, tdecision, tcalls, ttrue>>

rampVars == <<initial_load, final_load, ramp_duration, step_interval, upc,
              num_steps, load_increment, current_load, step, ramp_results,
              ramp_trace, uraised>>

metricsVars == <<outcomes, mpc, metrics>>

waitVars == <<wait_timeout, wait_interval, error_message, wpc, start_time,
              wclock, wtrace, wresult>>

asyncVars == <<async_requests, apc, tstate, toutcome, finish_order, responses,
               async_results, araised>>

apiVars == <<api_max_retries, retry_delay, retry_on_status, qpc, api_attempt,
             api_last_exception, api_trace, api_result>>

helperVars == <<waitVars, asyncVars, apiVars>>

vars == <<poolVars, retryVars, sustVars, monkeyVars, callVars, threadVars,
          rampVars, metricsVars, helperVars>>

\* A step of one routine leaves the other routines' variables alone.
PoolOnly == UNCHANGED <<retryVars, sustVars, monkeyVars, callVars, threadVars,
                        rampVars, metricsVars, helperVars>>
RetryOnly == UNCHANGED <<poolVars, sustVars, monkeyVars, callVars, threadVars,
                         rampVars, metricsVars, helperVars>>
SustainedOnly == UNCHANGED <<poolVars, retryVars, monkeyVars, callVars,
                             threadVars, rampVars, metricsVars, helperVars>>
ChaosOnly == UNCHANGED <<poolVars, retryVars, sustVars, threadVars, rampVars,
                         metricsVars, helperVars>>
ThreadsOnly == UNCHANGED <<poolVars, retryVars, sustVars, callVars, rampVars,
                           metricsVars, helperVars>>
RampOnly == UNCHANGED <<poolVars, retryVars, sustVars, monkeyVars, callVars,
                        threadVars, metricsVars, helperVars>>
MetricsOnly == UNCHANGED <<poolVars, retryVars, sustVars, monkeyVars, callVars,
                           threadVars, rampVars, helperVars>>
WaitOnly == UNCHANGED <<poolVars, retryVars, sustVars, monkeyVars, callVars,
                        threadVars, rampVars, metricsVars, asyncVars, apiVars>>
AsyncOnly == UNCHANGED <<poolVars, retryVars, sustVars, monkeyVars, callVars,
                         threadVars, rampVars, metricsVars, waitVars, apiVars>>
ApiOnly == UNCHANGED <<poolVars, retryVars, sustVars, monkeyVars, callVars,
                       threadVars, rampVars, metricsVars, waitVars, asyncVars>>

Futures == 1..MaxRequests
running == {f \in Futures : fstate[f] = "running"}

\* ----------------------------------------- generate_concurrent_requests
PoolStart ==
    /\ num_requests \in 0..MaxRequests
    /\ max_workers \in 0..MaxWorkers
    /\ pc = "enter"
    /\ submitted = 0
    /\ fstate = [f \in Futures |-> "none"]
    /\ foutcome = [f \in Futures |-> NoOutcome]
    /\ work_queue = <<>>
    /\ finished_set = {}
    /\ finished_futures = <<>>
    /\ pending = {}
    /\ results = <<>>
    /\ yielded = <<>>
    /\ completed = <<>>
    /\ done_at_call = {}
    /\ raised = NoExc

\* results.append({...}) of the try and of the except branch.
SuccessRecord(o) == [success |-> TRUE, result |-> o.val, error |-> None]
FailureRecord(o) == [success |-> FALSE, result |-> None, error |-> Str(o.exc)]

\* A variant that records nothing for an invocation that raised.
RecordOutcomeDroppingFailures(res, o) ==
    IF o.kind = "return" THEN Append(res, SuccessRecord(o)) ELSE res

\* try: result = future.result(); results.append(success record)
\* except Exception as e: results.append(failure record)
RecordOutcome(res, o) ==
    IF o.kind = "return" THEN Append(res, SuccessRecord(o))
    ELSE IF IsInstance(o.exc, {"Exception"}) THEN Append(res, FailureRecord(o))
    ELSE res

\* A variant of the pool that starts every work item at once.
WorkerAvailableUnbounded(busy, workers) == workers > 0

\* ThreadPoolExecutor(max_workers=self.max_workers): a work item starts only
\* on one of at most max_workers worker threads.
WorkerAvailable(busy, workers) == Cardinality(busy) < workers

\* with ThreadPoolExecutor(max_workers=...) as executor: the constructor
\* rejects max_workers <= 0.
EnterPool ==
    /\ pc = "enter"
    /\ IF max_workers <= 0
       THEN /\ pc' = "raised"
            /\ raised' = Exc("ValueError", "max_workers must be greater than 0")
       ELSE /\ pc' = "submit"
            /\ UNCHANGED raised
    /\ UNCHANGED <<num_requests, max_workers, submitted, fstate, foutcome,
                   work_queue, finished_set, finished_futures, pending,
                   results, yielded, completed, done_at_call>>
    /\ PoolOnly

\* executor.submit(request_func, ...) for _ in range(num_requests)
Submit ==
    /\ pc = "submit"
    /\ submitted < num_requests
    /\ submitted' = submitted + 1
    /\ fstate' = [fstate EXCEPT ![submitted + 1] = "pending"]
    /\ work_queue' = Append(work_queue, submitted + 1)
    /\ UNCHANGED <<num_requests, max_workers, pc, foutcome, finished_set,
                   finished_futures, pending, results, yielded, completed,
                   done_at_call, raised>>
    /\ PoolOnly

\* A worker thread takes the oldest work item and starts the invocation.
StartWork ==
    /\ work_queue # <<>>
    /\ WorkerAvailable(running, max_workers)
    /\ fstate' = [fstate EXCEPT ![Head(work_queue)] = "running"]
    /\ work_queue' = Tail(work_queue)
    /\ UNCHANGED <<num_requests, max_workers, pc, submitted, foutcome,
                   finished_set, finished_futures, pending, results, yielded,
                   completed, done_at_call, raised>>
    /\ PoolOnly

\* The invocation of future f returns or raises; the future is finished and
\* an installed as_completed waiter is told (in this order of completion).
Complete(f) ==
    /\ fstate[f] = "running"
    /\ \E o \in PoolOutcomes :
          foutcome' = [foutcome EXCEPT ![f] = o]
    /\ fstate' = [fstate EXCEPT ![f] = "finished"]
    /\ completed' = Append(completed, f)
    /\ IF f \in pending
       THEN /\ finished_futures' = Append(finished_futures, f)
            /\ pending' = pending \ {f}
       ELSE UNCHANGED <<finished_futures, pending>>
    /\ UNCHANGED <<num_requests, max_workers, pc, submitted, work_queue,
                   finished_set, results, yielded, done_at_call, raised>>
    /\ PoolOnly

\* for future in as_completed(futures): the call takes the futures already
\* finished (as a set) and installs a waiter on the others.
AsCompleted ==
    /\ pc = "submit"
    /\ submitted = num_requests
    /\ pc' = "collect"
    /\ finished_set' = {f \in 1..submitted : fstate[f] = "finished"}
    /\ done_at_call' = {f \in 1..submitted : fstate[f] = "finished"}
    /\ pending' = {f \in 1..submitted : fstate[f] # "finished"}
    /\ UNCHANGED <<num_requests, max_workers, submitted, fstate, foutcome,
                   work_queue, finished_futures, results, yielded, completed,
                   raised>>
    /\ PoolOnly

SeqRange(s) == {s[i] : i \in 1..Len(s)}

\* A variant that walks the finished futures in submission order.
NextYieldInSubmissionOrder(fset, fseq) ==
    LET all == fset \cup SeqRange(fseq)
    IN  {f \in all : \A g \in all : f <= g}

\* The futures as_completed may yield next: any of those found finished at
\* its call (a set has no order), and after them the waiter's list in order.
NextYield(fset, fseq) ==
    IF fset # {} THEN fset
    ELSE IF fseq # <<>> THEN {Head(fseq)}
    ELSE {}

RECURSIVE Without(_, _)
Without(s, x) ==
    IF s = <<>> THEN <<>>
    ELSE IF Head(s) = x THEN Tail(s)
    ELSE <<Head(s)>> \o Without(Tail(s), x)

\* One turn of the for loop: as_completed yields a future, its result is
\* taken and recorded.
Collect ==
    /\ pc = "collect"
    /\ \E f \in NextYield(finished_set, finished_futures) :
          /\ finished_set' = finished_set \ {f}
          /\ finished_futures' = IF f \in finished_set THEN finished_futures
                                 ELSE Without(finished_futures, f)
          /\ yielded' = Append(yielded, f)
          /\ results' = RecordOutcome(results, foutcome[f])
    /\ UNCHANGED <<num_requests, max_workers, pc, submitted, fstate, foutcome,
                   work_queue, pending, completed, done_at_call, raised>>
    /\ PoolOnly

\* A variant that stops as soon as no finished future is left to yield.
CollectionExhaustedIgnoringPending(fset, fseq, waiting) ==
    fset = {} /\ fseq = <<>>

\* as_completed stops when every future has been yielded.
CollectionExhausted(fset, fseq, waiting) ==
    fset = {} /\ fseq = <<>> /\ waiting = {}

\* The for loop ends; the with block ends (shutdown(wait=True)).
ExitPool ==
    /\ pc = "collect"
    /\ CollectionExhausted(finished_set, finished_futures, pending)
    /\ pc' = "log"
    /\ UNCHANGED <<num_requests, max_workers, submitted, fstate, foutcome,
                   work_queue, finished_set, finished_futures, pending,
                   results, yielded, completed, done_at_call, raised>>
    /\ PoolOnly

\* duration = end_time - start_time; logger.info(f"... {num_requests/duration}")
\* time.time() may give the same reading twice: the division then raises.
LogAndReturn ==
    /\ pc = "log"
    /\ \E duration_is_zero \in BOOLEAN :
          IF duration_is_zero
          THEN /\ pc' = "raised"
               /\ raised' = Exc("ZeroDivisionError", "float division by zero")
          ELSE /\ pc' = "returned"
               /\ UNCHANGED raised
    /\ UNCHANGED <<num_requests, max_workers, submitted, fstate, foutcome,
                   work_queue, finished_set, finished_futures, pending,
                   results, yielded, completed, done_at_call>>
    /\ PoolOnly

\* The calling thread's steps and the worker threads' steps.
CallerStep == EnterPool \/ Submit \/ AsCompleted \/ Collect \/ ExitPool
                 \/ LogAndReturn

PoolStep ==
    \/ EnterPool
    \/ Submit
    \/ StartWork
    \/ \E f \in Futures : Complete(f)
    \/ AsCompleted
    \/ Collect
    \/ ExitPool
    \/ LogAndReturn

\* ------------------------------------------------------ retry_on_failure
Call(o) == [ev |-> "call", out |-> o, slept |-> 0]
Sleep(d) == [ev |-> "sleep", out |-> NoOutcome, slept |-> d]

\* The tuples of exception classes a caller passes as `exceptions`.
RetryableSets == { {"Exception"}, {"OSError"}, {"ConnectionError"},
                   {"ConnectionError", "ValueError"} }

RetryStart ==
    /\ max_retries \in -1..MaxRetries
    /\ delay \in 0..MaxDelay
    /\ exceptions \in RetryableSets
    /\ rpc = "loop"
    /\ attempt = 0
    /\ last_exception = NoExc
    /\ trace = <<>>
    /\ retval = None
    /\ rraised = NoExc

\* A variant that retries on every failure.
CaughtAlways(e, classes) == TRUE

\* except exceptions as e
Caught(e, classes) == IsInstance(e, classes)

\* for attempt in range(max_retries)
InRange(i, n) == 0 <= i /\ i < n

\* A variant that gives up one attempt early.
RetryLeftOneFewer(i, n) == i < n - 2

\* if attempt < max_retries - 1
RetryLeft(i, n) == i < n - 1

\* A variant whose wait grows with the attempt.
SleepTimeGrowing(d, i) == d * (i + 1)

\* time.sleep(delay)
SleepTime(d, i) == d

\* A variant that logs the last failure and returns.
ReraiseSwallowed(e) == [rpc |-> "returned", rraised |-> NoExc]

\* else: logger.error(...); raise
Reraise(e) == [rpc |-> "raised", rraised |-> e]

\* try: return func(*args, **kwargs) / except exceptions as e: ...
RetryCall ==
    /\ rpc = "loop"
    /\ InRange(attempt, max_retries)
    /\ \E o \in OpOutcomes :
          /\ trace' = Append(trace, Call(o))
          /\ IF o.kind = "return"
             THEN /\ rpc' = "returned"
                  /\ retval' = o.val
                  /\ UNCHANGED <<last_exception, rraised>>
             ELSE IF Caught(o.exc, exceptions)
             THEN /\ last_exception' = o.exc
                  /\ IF RetryLeft(attempt, max_retries)
                     THEN /\ rpc' = "sleep"
                          /\ UNCHANGED rraised
                     ELSE /\ rpc' = Reraise(o.exc).rpc
                          /\ rraised' = Reraise(o.exc).rraised
                  /\ UNCHANGED retval
             ELSE /\ rpc' = "raised"
                  /\ rraised' = o.exc
                  /\ UNCHANGED <<last_exception, retval>>
    /\ UNCHANGED <<max_retries, delay, exceptions, attempt>>
    /\ RetryOnly

\* time.sleep(delay), then the next turn of the for loop
RetrySleep ==
    /\ rpc = "sleep"
    /\ trace' = Append(trace, Sleep(SleepTime(delay, attempt)))
    /\ attempt' = attempt + 1
    /\ rpc' = "loop"
    /\ UNCHANGED <<max_retries, delay, exceptions, last_exception, retval,
                   rraised>>
    /\ RetryOnly

\* The for loop is over: if last_exception: raise last_exception; otherwise
\* the function ends without a return statement and None is returned.
RetryLoopEnd ==
    /\ rpc = "loop"
    /\ ~InRange(attempt, max_retries)
    /\ IF last_exception # NoExc
       THEN /\ rpc' = "raised"
            /\ rraised' = last_exception
            /\ UNCHANGED retval
       ELSE /\ rpc' = "returned"
            /\ retval' = None
            /\ UNCHANGED rraised
    /\ UNCHANGED <<max_retries, delay, exceptions, attempt, last_exception,
                   trace>>
    /\ RetryOnly

RetryStep ==
    \/ RetryCall
    \/ RetrySleep
    \/ RetryLoopEnd

\* -------------------------------------------------------- sustained_load
\* The values requests_per_second takes.
Rates == {-2, -1, 0, 1, 2}

\* The rates at which an instantaneous operation is driven.
InstantRates == {1, 2, 5, 10}

\* The clock's ticks in one second: every 1.0 / requests_per_second above
\* is a whole number of ticks.
TicksPerSecond ==
    CHOOSE t \in Rates \cup InstantRates : \A r \in Rates \cup InstantRates : t >= r

\* The times one invocation takes, in ticks: whole half seconds, or no time
\* at all for an instantaneous operation.
OpTicks(instant) ==
    IF instant THEN {0}
    ELSE {k * (TicksPerSecond \div 2) : k \in 0..MaxOpTicks}

\* Most invocations of one call that are followed: an instantaneous operation
\* is followed for one invocation more than the rate allows.
ResultCap(instant) ==
    IF instant THEN TicksPerSecond * MaxDuration + 1 ELSE MaxResults

Max(a, b) == IF a >= b THEN a ELSE b

\* The ends of the invocations made by sustained_load.
SustainedOutcomes == {Returned("data"),
                      Raised(Exc("ConnectionError", "Failed to establish connection"))}

\* sustained_load is called with a rate out of rates.
SustainedCalled(rates, instant) ==
    /\ requests_per_second \in rates
    /\ duration \in 0..MaxDuration
    /\ instant_op = instant
    /\ spc = "enter"
    /\ now = 0
    /\ interval = 0
    /\ end_time = 0
    /\ start_request = 0
    /\ all_results = <<>>
    /\ sraised = NoExc

SustainedStart == SustainedCalled(Rates, FALSE)

\* The operation is instantaneous and never fails.
SustainedInstantStart == SustainedCalled(InstantRates, TRUE)

\* A variant that takes the rate for the interval.
IntervalAsRate(rate) == rate

\* interval = 1.0 / requests_per_second, in ticks
Interval(rate) == TicksPerSecond \div rate

\* interval = 1.0 / requests_per_second; end_time = time.time() + duration
SustainedEnter ==
    /\ spc = "enter"
    /\ IF requests_per_second = 0
       THEN /\ spc' = "raised"
            /\ sraised' = Exc("ZeroDivisionError", "float division by zero")
            /\ UNCHANGED <<interval, end_time>>
       ELSE /\ interval' = Interval(requests_per_second)
            /\ end_time' = now + duration * TicksPerSecond
            /\ spc' = "check"
            /\ UNCHANGED sraised
    /\ UNCHANGED <<requests_per_second, duration, instant_op, now,
                   start_request, all_results>>
    /\ SustainedOnly

\* A variant that lets one more invocation start at the deadline.
BeforeDeadlineInclusive(t, deadline) == t <= deadline

\* time.time() < end_time
BeforeDeadline(t, deadline) == t < deadline

\* while time.time() < end_time: start_request = time.time()
SustainedCheck ==
    /\ spc = "check"
    /\ IF BeforeDeadline(now, end_time)
       THEN /\ Len(all_results) < ResultCap(instant_op)
            /\ start_request' = now
            /\ spc' = "invoke"
       ELSE /\ spc' = "returned"
            /\ UNCHANGED start_request
    /\ UNCHANGED <<requests_per_second, duration, instant_op, now, interval,
                   end_time, all_results, sraised>>
    /\ SustainedOnly

\* A variant that keeps no record of an invocation that raised.
SustainedRecordDroppingFailures(recorded, o, t) ==
    IF o.kind = "return"
    THEN Append(recorded, [success |-> TRUE, result |-> o.val, error |-> None,
                           timestamp |-> t])
    ELSE recorded

\* all_results.append({...}) in the try or in the except branch
SustainedRecord(recorded, o, t) ==
    Append(recorded,
           [success |-> o.kind = "return",
            result |-> o.val,
            error |-> IF o.kind = "return" THEN None ELSE Str(o.exc),
            timestamp |-> t])

\* try: result = request_func(...); append / except Exception as e: append
SustainedInvoke ==
    /\ spc = "invoke"
    /\ \E d \in OpTicks(instant_op),
          o \in IF instant_op THEN {Returned("data")} ELSE SustainedOutcomes :
          /\ now' = now + d
          /\ all_results' = SustainedRecord(all_results, o, now + d)
    /\ spc' = "sleep"
    /\ UNCHANGED <<requests_per_second, duration, instant_op, interval,
                   end_time, start_request, sraised>>
    /\ SustainedOnly

\* A variant that always sleeps the whole interval.
SleepTimeSustainedWholeInterval(gap, elapsed) == Max(0, gap)

\* sleep_time = max(0, interval - elapsed)
SleepTimeSustained(gap, elapsed) == Max(0, gap - elapsed)

\* elapsed = time.time() - start_request
\* time.sleep(max(0, interval - elapsed))
SustainedSleep ==
    /\ spc = "sleep"
    /\ now' = now + SleepTimeSustained(interval, now - start_request)
    /\ spc' = "check"
    /\ UNCHANGED <<requests_per_second, duration, instant_op, interval,
                   end_time, start_request, all_results, sraised>>
    /\ SustainedOnly

SustainedStep ==
    \/ SustainedEnter
    \/ SustainedCheck
    \/ SustainedInvoke
    \/ SustainedSleep

\* ------------------------------------------------- float arithmetic
\* Python's float is the IEEE 754 double: a sign, an exponent and a
\* significand of MantissaBits bits; every operation rounds its exact result
\* to the nearest such number, ties to the even significand.  A float is
\* [neg, e, m] with value 0.m[1]m[2]... (binary) * 2^e and m[1] = 1; zero has
\* the empty significand.
MantissaBits == 53

FloatZero == [neg |-> FALSE, e |-> 0, m |-> <<>>]

Zeros(n) == [i \in 1..n |-> 0]

RECURSIVE Pow2(_)
Pow2(n) == IF n = 0 THEN 1 ELSE 2 * Pow2(n - 1)

\* The significand plus one unit in its last place; <<>> when it overflows.
Increment(bits) ==
    LET zeros == {i \in DOMAIN bits : bits[i] = 0}
        last == CHOOSE i \in zeros : \A j \in zeros : j <= i
    IN  IF zeros = {} THEN <<>>
        ELSE [i \in DOMAIN bits |->
                 IF i < last THEN bits[i] ELSE IF i = last THEN 1 ELSE 0]

\* Round the exact bits (first bit 1, at least MantissaBits of them) to the
\* nearest float, ties to even.
RoundNearestEven(neg, e, exact) ==
    LET keep == SubSeq(exact, 1, MantissaBits)
        rest == SubSeq(exact, MantissaBits + 1, Len(exact))
        half == rest # <<>> /\ rest[1] = 1
        more == \E i \in 2..Len(rest) : rest[i] = 1
        up == half /\ (more \/ keep[MantissaBits] = 1)
        next == Increment(keep)
    IN  IF ~up THEN [neg |-> neg, e |-> e, m |-> keep]
        ELSE IF next = <<>>
             THEN [neg |-> neg, e |-> e + 1,
                   m |-> <<1>> \o Zeros(MantissaBits - 1)]
             ELSE [neg |-> neg, e |-> e, m |-> next]

\* The exponent of a / b: a / b is in [2^(e-1), 2^e).
RECURSIVE ExponentOf(_, _)
ExponentOf(a, b) ==
    IF a >= b THEN 1 + ExponentOf(a, 2 * b)
    ELSE IF 2 * a < b THEN ExponentOf(2 * a, b) - 1
    ELSE 0

\* The first k bits of r / d (r < d) after the binary point.
RECURSIVE QuotientBits(_, _, _)
QuotientBits(r, d, k) ==
    IF k = 0 THEN <<>>
    ELSE IF 2 * r >= d THEN <<1>> \o QuotientBits(2 * r - d, d, k - 1)
    ELSE <<0>> \o QuotientBits(2 * r, d, k - 1)

\* What is left of r / d after k bits.
RECURSIVE QuotientRest(_, _, _)
QuotientRest(r, d, k) ==
    IF k = 0 THEN r
    ELSE IF 2 * r >= d THEN QuotientRest(2 * r - d, d, k - 1)
    ELSE QuotientRest(2 * r, d, k - 1)

\* a / b for integers a and b # 0, as a float.
FloatDiv(a, b) ==
    IF a = 0 THEN FloatZero
    ELSE LET neg == (a < 0) # (b < 0)
             p == IF a < 0 THEN -a ELSE a
             q == IF b < 0 THEN -b ELSE b
             e == ExponentOf(p, q)
             r == IF e < 0 THEN p * Pow2(-e) ELSE p
             d == IF e < 0 THEN q ELSE q * Pow2(e)
             sticky == IF QuotientRest(r, d, MantissaBits + 1) # 0 THEN 1 ELSE 0
         IN  RoundNearestEven(neg, e,
                 Append(QuotientBits(r, d, MantissaBits + 1), sticky))

\* float(n) for an integer n
FloatOf(n) == FloatDiv(n, 1)

\* The carry out of the bits of x + y from place i on.
RECURSIVE Carry(_, _, _)
Carry(x, y, i) ==
    IF i > Len(x) THEN 0 ELSE (x[i] + y[i] + Carry(x, y, i + 1)) \div 2

\* The bits of x + y, both of one length, with the carry in front.
BitsSum(x, y) ==
    <<Carry(x, y, 1)>> \o
        [i \in DOMAIN x |-> (x[i] + y[i] + Carry(x, y, i + 1)) % 2]

\* The borrow out of the bits of x - y from place i on.
RECURSIVE Borrow(_, _, _)
Borrow(x, y, i) ==
    IF i > Len(x) THEN 0
    ELSE IF x[i] - y[i] - Borrow(x, y, i + 1) < 0 THEN 1 ELSE 0

\* The bits of x - y, both of one length, x >= y.
BitsDifference(x, y) ==
    [i \in DOMAIN x |-> (x[i] - y[i] - Borrow(x, y, i + 1)) % 2]

\* x < y for significands
BitsLess(x, y) ==
    LET differ == {i \in DOMAIN x : x[i] # y[i]}
        first == CHOOSE i \in differ : \A j \in differ : i <= j
    IN  differ # {} /\ x[first] < y[first]

\* |x| < |y|
MagnitudeLess(x, y) ==
    IF y.m = <<>> THEN FALSE
    ELSE IF x.m = <<>> THEN TRUE
    ELSE IF x.e # y.e THEN x.e < y.e
    ELSE BitsLess(x.m, y.m)

\* The float nearest to the exact bits, which may begin with zeros; e is
\* the exponent of their first place.
Normalized(neg, e, exact) ==
    LET ones == {i \in DOMAIN exact : exact[i] = 1}
        first == CHOOSE i \in ones : \A j \in ones : i <= j
        bits == SubSeq(exact, first, Len(exact))
    IN  IF ones = {} THEN FloatZero
        ELSE RoundNearestEven(neg, e - (first - 1),
                 IF Len(bits) < MantissaBits
                 THEN bits \o Zeros(MantissaBits - Len(bits)) ELSE bits)

\* x + y for floats x and y
FloatAdd(x, y) ==
    IF x.m = <<>> THEN y
    ELSE IF y.m = <<>> THEN x
    ELSE LET big == IF MagnitudeLess(x, y) THEN y ELSE x
             small == IF MagnitudeLess(x, y) THEN x ELSE y
             shift == big.e - small.e
             b == big.m \o Zeros(shift)
             s == Zeros(shift) \o small.m
         IN  IF big.neg = small.neg
             THEN Normalized(big.neg, big.e + 1, BitsSum(b, s))
             ELSE Normalized(big.neg, big.e, BitsDifference(b, s))

\* The integer the bits are in binary.
RECURSIVE BitsValue(_, _)
BitsValue(bits, n) ==
    IF n = 0 THEN 0 ELSE 2 * BitsValue(bits, n - 1) + bits[n]

\* int(x): x without its fraction
FloatInt(x) ==
    IF x.m = <<>> \/ x.e <= 0 THEN 0
    ELSE LET whole == BitsValue(x.m, x.e)
         IN  IF x.neg THEN -whole ELSE whole

\* ---------------------------------------------------------- ramp_up_load
\* How the invocations of one batch end.
BatchOutcomes == PoolOutcomes

\* What generate_concurrent_requests raises instead of returning: the pool
\* cannot be made, or the batch took no time on the clock.
BatchExceptions ==
    {Exc("ValueError", "max_workers must be greater than 0"),
     Exc("ZeroDivisionError", "float division by zero")}

\* What the call did, in order.
BatchIssued(i, n) == [ev |-> "issue", step |-> i, n |-> n]
BatchDone(i, n) == [ev |-> "done", step |-> i, n |-> n]
RampSlept(i, secs) == [ev |-> "sleep", step |-> i, n |-> secs]

RampStart ==
    /\ initial_load \in 0..MaxLoad
    /\ final_load \in 0..MaxLoad
    /\ ramp_duration \in 0..MaxRampDuration
    /\ step_interval \in 0..MaxStepInterval
    /\ upc = "enter"
    /\ num_steps = 0
    /\ load_increment = FloatZero
    /\ current_load = FloatZero
    /\ step = 0
    /\ ramp_results = <<>>
    /\ ramp_trace = <<>>
    /\ uraised = NoExc

\* num_steps = ramp_duration // step_interval
\* load_increment = (final_load - initial_load) / num_steps
\* current_load = initial_load
RampEnter ==
    /\ upc = "enter"
    /\ IF step_interval = 0
       THEN /\ upc' = "raised"
            /\ uraised' = Exc("ZeroDivisionError",
                              "integer division or modulo by zero")
            /\ UNCHANGED <<num_steps, load_increment, current_load>>
       ELSE IF ramp_duration \div step_interval = 0
       THEN /\ upc' = "raised"
            /\ uraised' = Exc("ZeroDivisionError", "division by zero")
            /\ num_steps' = 0
            /\ UNCHANGED <<load_increment, current_load>>
       ELSE /\ num_steps' = ramp_duration \div step_interval
            /\ load_increment' = FloatDiv(final_load - initial_load,
                                          ramp_duration \div step_interval)
            /\ current_load' = FloatOf(initial_load)
            /\ upc' = "loop"
            /\ UNCHANGED uraised
    /\ UNCHANGED <<initial_load, final_load, ramp_duration, step_interval,
                   step, ramp_results, ramp_trace>>
    /\ RampOnly

\* int(current_load)
StepLoad(load, i) == FloatInt(load)

\* for step in range(num_steps): the batch of the step is issued,
\* self.generate_concurrent_requests(request_func, int(current_load), ...)
RampIssue ==
    /\ upc = "loop"
    /\ step < num_steps
    /\ ramp_trace' = Append(ramp_trace,
                            BatchIssued(step, StepLoad(current_load, step)))
    /\ upc' = "batch"
    /\ UNCHANGED <<initial_load, final_load, ramp_duration, step_interval,
                   num_steps, load_increment, current_load, step,
                   ramp_results, uraised>>
    /\ RampOnly

\* The outcomes one batch of n invocations returns.
StepResults(i, n, o) ==
    [k \in 1..n |-> [step |-> i, success |-> o.kind = "return",
                     result |-> o.val,
                     error |-> IF o.kind = "return" THEN None ELSE Str(o.exc)]]

\* A variant that goes on to the next step without a sleep.
AfterBatchWithoutSleep(i, n) == "loop"

\* if step < num_steps - 1: time.sleep(step_interval)
AfterBatch(i, n) == IF i < n - 1 THEN "sleep" ELSE "loop"

\* The batch returns: all_results.extend(step_results);
\* current_load += load_increment; or the batch raises.
RampCollect ==
    /\ upc = "batch"
    /\ \/ \E o \in BatchOutcomes :
            LET n == ramp_trace[Len(ramp_trace)].n
            IN  /\ ramp_results' = ramp_results \o StepResults(step, n, o)
                /\ ramp_trace' = Append(ramp_trace, BatchDone(step, n))
                /\ current_load' = FloatAdd(current_load, load_increment)
                /\ upc' = AfterBatch(step, num_steps)
                /\ step' = IF AfterBatch(step, num_steps) = "loop"
                           THEN step + 1 ELSE step
                /\ UNCHANGED uraised
       \/ \E e \in BatchExceptions :
            /\ upc' = "raised"
            /\ uraised' = e
            /\ UNCHANGED <<ramp_results, ramp_trace, current_load, step>>
    /\ UNCHANGED <<initial_load, final_load, ramp_duration, step_interval,
                   num_steps, load_increment>>
    /\ RampOnly

\* time.sleep(step_interval), then the next step
RampSleep ==
    /\ upc = "sleep"
    /\ ramp_trace' = Append(ramp_trace, RampSlept(step, step_interval))
    /\ step' = step + 1
    /\ upc' = "loop"
    /\ UNCHANGED <<initial_load, final_load, ramp_duration, step_interval,
                   num_steps, load_increment, current_load, ramp_results,
                   uraised>>
    /\ RampOnly

\* return all_results
RampReturn ==
    /\ upc = "loop"
    /\ step >= num_steps
    /\ upc' = "returned"
    /\ UNCHANGED <<initial_load, final_load, ramp_duration, step_interval,
                   num_steps, load_increment, current_load, step,
                   ramp_results, ramp_trace, uraised>>
    /\ RampOnly

RampStep ==
    \/ RampEnter
    \/ RampIssue
    \/ RampCollect
    \/ RampSleep
    \/ RampReturn

\* ----------------------------------------------------------- ChaosMonkey
\* FailureType: the enumeration's values.
FailureTypes == {"network_timeout", "connection_failure", "slow_response",
                 "partial_failure", "service_unavailable", "random"}

\* failure_types of the RANDOM branch, from which random.choice picks.
RandomPool == {"network_timeout", "connection_failure", "service_unavailable"}

\* kwargs.get("timeout_duration", 5.0) and kwargs.get("delay", 2.0)
DefaultTimeout == 5
DefaultDelay == 2

\* The keyword arguments a caller gives inject_failure, and their values.
KwargKeys == {"timeout_duration", "delay"}
ConfiguredSecs == {1}
KwargSets == UNION {[K -> ConfiguredSecs] : K \in SUBSET KwargKeys}

\* kwargs.get(key, default)
Get(kw, key, default) == IF key \in DOMAIN kw THEN kw[key] ELSE default

\* The ends of an invocation of the operation given to inject_failure.
ChaosOutcomes == {Returned("data"), Raised(Exc("ValueError", ""))}

\* random.random(): the draws, in units of 1 / RandomScale.
Draws == 0..(RandomScale - 1)

\* A variant that fails when the draw reaches the rate.
DecisionInverted(draw, rate) == draw >= rate

\* should_fail = random.random() < self.failure_rate
Decision(draw, rate) == draw < rate

\* A variant that starts again from zero after the first request.
CountRequestRestarting(total, fail) == IF total > 0 THEN 0 ELSE total + 1

\* self.total_requests += 1
CountRequest(total, fail) == total + 1

\* A variant that counts a failure on every request.
CountFailureAlways(count, fail) == count + 1

\* if should_fail: self.failure_count += 1
CountFailure(count, fail) == IF fail THEN count + 1 ELSE count

\* What a call did, in order.
Decided(b) == [ev |-> "should_fail", flag |-> b, secs |-> 0, out |-> NoOutcome]
Slept(d) == [ev |-> "sleep", flag |-> FALSE, secs |-> d, out |-> NoOutcome]
Invoked(o) == [ev |-> "call", flag |-> FALSE, secs |-> 0, out |-> o]
Synthetic(e) == [ev |-> "simulate", flag |-> FALSE, secs |-> 0, out |-> Raised(e)]

\* func(**kwargs): a function that takes no keyword argument cannot be
\* called with one.
CallFunc(kw, accepts, o) ==
    IF DOMAIN kw # {} /\ ~accepts
    THEN Raised(Exc("TypeError", "got an unexpected keyword argument"))
    ELSE o

RECURSIVE Gcd(_, _)
Gcd(a, b) == IF b = 0 THEN a ELSE Gcd(b, a % b)

\* a / b, as the fraction in lowest terms.
Ratio(a, b) == [num |-> a \div Gcd(a, b), den |-> b \div Gcd(a, b)]
Zero == [num |-> 0, den |-> 1]
One == [num |-> 1, den |-> 1]

NoStats == [total_requests |-> 0, failure_count |-> 0, failure_rate |-> 0,
            actual_failure_rate |-> Zero]

\* A variant that reports the configured rate.
ActualFailureRateConfigured(count, total, rate) == Ratio(rate, RandomScale)

\* self.failure_count / self.total_requests if self.total_requests > 0 else 0
ActualFailureRate(count, total, rate) ==
    IF total > 0 THEN Ratio(count, total) ELSE Zero

\* ChaosMonkey.__init__
MonkeyStart ==
    /\ failure_rate \in 0..RandomScale
    /\ failure_count = 0
    /\ total_requests = 0

NoCall ==
    /\ cpc = "idle" /\ ckind = "none" /\ arg_type = None /\ ftype = None
    /\ kwargs = <<>> /\ accepts_kwargs = FALSE /\ cevents = <<>>
    /\ cresult = NoOutcome /\ stats = NoStats /\ total_before = 0
    /\ failures_before = 0 /\ calls = 0 /\ decisions = 0 /\ positives = 0

\* should_fail(), called by the test or by inject_failure; events is what
\* the call did before.
ShouldFail(draw, events) ==
    /\ total_requests' = CountRequest(total_requests, Decision(draw, failure_rate))
    /\ failure_count' = CountFailure(failure_count, Decision(draw, failure_rate))
    /\ cevents' = Append(events, Decided(Decision(draw, failure_rate)))
    /\ decisions' = decisions + 1
    /\ positives' = positives + (IF Decision(draw, failure_rate) THEN 1 ELSE 0)
    /\ UNCHANGED failure_rate

BeginCall(kind) ==
    /\ cpc = "idle"
    /\ calls < MaxCalls
    /\ calls' = calls + 1
    /\ ckind' = kind
    /\ total_before' = total_requests
    /\ failures_before' = failure_count

\* A direct call of should_fail.
CallShouldFail ==
    /\ BeginCall("should_fail")
    /\ \E draw \in Draws :
          /\ ShouldFail(draw, <<>>)
          /\ cresult' = Returned(IF Decision(draw, failure_rate)
                                 THEN "True" ELSE "False")
    /\ UNCHANGED <<cpc, arg_type, ftype, kwargs, accepts_kwargs, stats>>
    /\ ChaosOnly

\* inject_failure(func, failure_type, **kwargs) is called:
\* if failure_type is None: failure_type = FailureType.RANDOM
CallInjectFailure ==
    /\ BeginCall("inject_failure")
    /\ \E t \in FailureTypes \cup {None}, kw \in KwargSets, a \in BOOLEAN :
          /\ arg_type' = t
          /\ ftype' = IF t = None THEN "random" ELSE t
          /\ kwargs' = kw
          /\ accepts_kwargs' = a
    /\ cpc' = "decide"
    /\ cevents' = <<>>
    /\ cresult' = NoOutcome
    /\ UNCHANGED <<monkeyVars, stats, decisions, positives>>
    /\ ChaosOnly

\* if not self.should_fail(): return func(**kwargs)
InjectDecide ==
    /\ cpc = "decide"
    /\ \E draw \in Draws :
          /\ ShouldFail(draw, cevents)
          /\ cpc' = IF Decision(draw, failure_rate) THEN "dispatch" ELSE "invoke"
    /\ UNCHANGED <<ckind, arg_type, ftype, kwargs, accepts_kwargs, cresult,
                   stats, total_before, failures_before, calls>>
    /\ ChaosOnly

\* A variant that fails at once, without the wait.
SimulateNetworkTimeoutFastFail(timeout_duration) ==
    <<Synthetic(Exc("TimeoutError", "Network request timed out"))>>

\* simulate_network_timeout: time.sleep(timeout_duration), raise TimeoutError
SimulateNetworkTimeout(timeout_duration) ==
    <<Slept(timeout_duration),
      Synthetic(Exc("TimeoutError", "Network request timed out"))>>

\* A variant that waits before it fails.
SimulateConnectionFailureAfterWait ==
    <<Slept(DefaultTimeout),
      Synthetic(Exc("ConnectionError", "Failed to establish connection"))>>

\* simulate_connection_failure: raise ConnectionError
SimulateConnectionFailure ==
    <<Synthetic(Exc("ConnectionError", "Failed to establish connection"))>>

\* simulate_slow_response: time.sleep(delay)
SimulateSlowResponse(secs) == <<Slept(secs)>>

\* simulate_service_unavailable: raise Exception
SimulateServiceUnavailable ==
    <<Synthetic(Exc("Exception", "Service unavailable (503)"))>>

\* The simulation raises: its error leaves inject_failure.
RaiseFrom(events) ==
    /\ cevents' = cevents \o events
    /\ cresult' = events[Len(events)].out
    /\ cpc' = "idle"
    /\ UNCHANGED ftype

\* A variant that raises a failure for the kinds without a simulation.
NoSimulationRaising ==
    RaiseFrom(<<Synthetic(Exc("Exception", "Partial service failure"))>>)

\* else: return func(**kwargs), for a kind no branch names (PARTIAL_FAILURE)
NoSimulation ==
    /\ cpc' = "invoke"
    /\ UNCHANGED <<ftype, cevents, cresult>>

\* The branches on failure_type after a positive decision.
InjectDispatch ==
    /\ cpc = "dispatch"
    /\ CASE ftype = "network_timeout" ->
              RaiseFrom(SimulateNetworkTimeout(
                            Get(kwargs, "timeout_duration", DefaultTimeout)))
         [] ftype = "connection_failure" ->
              RaiseFrom(SimulateConnectionFailure)
         [] ftype = "slow_response" ->
              \* the simulation returns; then return func(**kwargs)
              /\ cevents' = cevents \o
                     SimulateSlowResponse(Get(kwargs, "delay", DefaultDelay))
              /\ cpc' = "invoke"
              /\ UNCHANGED <<ftype, cresult>>
         [] ftype = "service_unavailable" ->
              RaiseFrom(SimulateServiceUnavailable)
         [] ftype = "random" ->
              \* return self.inject_failure(func, selected_type, **kwargs)
              /\ \E selected_type \in RandomPool : ftype' = selected_type
              /\ cpc' = "decide"
              /\ UNCHANGED <<cevents, cresult>>
         [] OTHER -> NoSimulation
    /\ UNCHANGED <<monkeyVars, ckind, arg_type, kwargs, accepts_kwargs, stats,
                   total_before, failures_before, calls, decisions, positives>>
    /\ ChaosOnly

\* return func(**kwargs)
InjectInvoke ==
    /\ cpc = "invoke"
    /\ \E o \in ChaosOutcomes :
          /\ cevents' = Append(cevents, Invoked(CallFunc(kwargs, accepts_kwargs, o)))
          /\ cresult' = CallFunc(kwargs, accepts_kwargs, o)
    /\ cpc' = "idle"
    /\ UNCHANGED <<monkeyVars, ckind, arg_type, ftype, kwargs, accepts_kwargs,
                   stats, total_before, failures_before, calls, decisions,
                   positives>>
    /\ ChaosOnly

\* get_statistics()
GetStatistics ==
    /\ BeginCall("get_statistics")
    /\ stats' = [total_requests |-> total_requests,
                 failure_count |-> failure_count,
                 failure_rate |-> failure_rate,
                 actual_failure_rate |->
                     ActualFailureRate(failure_count, total_requests, failure_rate)]
    /\ cevents' = <<>>
    /\ cresult' = NoOutcome
    /\ UNCHANGED <<monkeyVars, cpc, arg_type, ftype, kwargs, accepts_kwargs,
                   decisions, positives>>
    /\ ChaosOnly

\* What a direct call of simulate_<kind> does; secs is its argument.
Simulate(kind, secs) ==
    CASE kind = "network_timeout" -> SimulateNetworkTimeout(secs)
      [] kind = "connection_failure" -> SimulateConnectionFailure
      [] kind = "slow_response" -> SimulateSlowResponse(secs)
      [] kind = "service_unavailable" -> SimulateServiceUnavailable

\* A direct call of simulate_network_timeout, simulate_connection_failure,
\* simulate_slow_response or simulate_service_unavailable, with the default
\* or a given duration.
CallSimulate ==
    /\ BeginCall("simulate")
    /\ \E kind \in FailureTypes \ {"partial_failure", "random"} :
        \E secs \in ConfiguredSecs \cup
                       {IF kind = "slow_response" THEN DefaultDelay
                                                  ELSE DefaultTimeout} :
          LET
              events == Simulate(kind, secs)
              last == events[Len(events)]
          IN  /\ arg_type' = kind
              /\ ftype' = kind
              /\ cevents' = events
              /\ cresult' = IF last.ev = "simulate" THEN last.out
                                                     ELSE Returned(None)
    /\ kwargs' = <<>>
    /\ accepts_kwargs' = FALSE
    /\ UNCHANGED <<monkeyVars, cpc, stats, decisions, positives>>
    /\ ChaosOnly

\* NetworkChaos.simulate_packet_loss(probability), the probability in units
\* of 1 / RandomScale
SimulatePacketLoss(draw, probability) ==
    IF draw < probability
    THEN <<Synthetic(Exc("ConnectionError", "Packet loss detected"))>>
    ELSE <<>>

\* A variant in which the partition has healed.
SimulateNetworkPartitionHealed == <<>>

\* NetworkChaos.simulate_network_partition()
SimulateNetworkPartition ==
    <<Synthetic(Exc("ConnectionError", "Network partition detected"))>>

\* NetworkChaos.simulate_bandwidth_throttle(delay)
SimulateBandwidthThrottle(secs) == <<Slept(secs)>>

\* ServiceChaos.simulate_partial_failure(failure_percentage)
SimulatePartialFailure(draw, failure_percentage) ==
    IF draw < failure_percentage
    THEN <<Synthetic(Exc("Exception", "Partial service failure"))>>
    ELSE <<>>

\* ServiceChaos.simulate_cascading_failure()
SimulateCascadingFailure ==
    <<Synthetic(Exc("Exception",
                    "Cascading failure detected - service chain broken"))>>

\* The static methods of NetworkChaos and ServiceChaos.
StaticHelpers == {"packet_loss", "network_partition", "bandwidth_throttle",
                  "degraded_performance", "static_partial_failure",
                  "cascading_failure"}

StaticChaos(helper, draw, probability, secs) ==
    CASE helper = "packet_loss" -> SimulatePacketLoss(draw, probability)
      [] helper = "network_partition" -> SimulateNetworkPartition
      [] helper = "bandwidth_throttle" -> SimulateBandwidthThrottle(secs)
      [] helper = "degraded_performance" -> <<>>
      [] helper = "static_partial_failure" ->
             SimulatePartialFailure(draw, probability)
      [] helper = "cascading_failure" -> SimulateCascadingFailure

\* What a static helper returns when it does not raise:
\* simulate_degraded_performance returns its multiplier, the others None.
StaticReturn(helper) ==
    IF helper = "degraded_performance" THEN Returned("multiplier")
                                       ELSE Returned(None)

\* A call of a static helper, which takes no ChaosMonkey.
CallStatic ==
    /\ BeginCall("static")
    /\ \E helper \in StaticHelpers, draw \in Draws,
          probability \in 0..RandomScale, secs \in ConfiguredSecs :
          LET events == StaticChaos(helper, draw, probability, secs)
          IN  /\ arg_type' = helper
              /\ ftype' = helper
              /\ cevents' = events
              /\ cresult' = IF events # <<>> /\ events[Len(events)].ev = "simulate"
                             THEN events[Len(events)].out
                             ELSE StaticReturn(helper)
    /\ kwargs' = <<>>
    /\ accepts_kwargs' = FALSE
    /\ UNCHANGED <<monkeyVars, cpc, stats, decisions, positives>>
    /\ ChaosOnly

ChaosStep ==
    \/ CallShouldFail
    \/ CallInjectFailure
    \/ InjectDecide
    \/ InjectDispatch
    \/ InjectInvoke
    \/ GetStatistics
    \/ CallSimulate
    \/ CallStatic

\* ------------------------------------------- ChaosMonkey shared by threads
\* Worker threads of a pool share one ChaosMonkey and call should_fail with
\* no lock. self.total_requests += 1 is a load of the attribute, an add and
\* a store; a thread switch can fall between them.
Threads == 1..MaxThreads

ThreadsStart ==
    /\ tpc = [t \in Threads |-> "idle"]
    /\ treg = [t \in Threads |-> 0]
    /\ tdecision = [t \in Threads |-> FALSE]
    /\ tcalls = [t \in Threads |-> 0]
    /\ ttrue = [t \in Threads |-> 0]

\* self.total_requests += 1, the load
LoadTotal(t) ==
    /\ tpc[t] = "idle"
    /\ tcalls[t] < MaxThreadCalls
    /\ treg' = [treg EXCEPT ![t] = total_requests]
    /\ tpc' = [tpc EXCEPT ![t] = "store_total"]
    /\ UNCHANGED <<monkeyVars, tdecision, tcalls, ttrue>>
    /\ ThreadsOnly

\* self.total_requests += 1, the store
StoreTotal(t) ==
    /\ tpc[t] = "store_total"
    /\ total_requests' = CountRequest(treg[t], TRUE)
    /\ tpc' = [tpc EXCEPT ![t] = "draw"]
    /\ UNCHANGED <<failure_rate, failure_count, treg, tdecision, tcalls, ttrue>>
    /\ ThreadsOnly

\* should_fail = random.random() < self.failure_rate
Draw(t) ==
    /\ tpc[t] = "draw"
    /\ \E draw \in Draws :
          /\ tdecision' = [tdecision EXCEPT ![t] = Decision(draw, failure_rate)]
          /\ tpc' = [tpc EXCEPT ![t] =
                        IF Decision(draw, failure_rate) THEN "load_count"
                                                        ELSE "return"]
    /\ UNCHANGED <<monkeyVars, treg, tcalls, ttrue>>
    /\ ThreadsOnly

\* self.failure_count += 1, the load
LoadCount(t) ==
    /\ tpc[t] = "load_count"
    /\ treg' = [treg EXCEPT ![t] = failure_count]
    /\ tpc' = [tpc EXCEPT ![t] = "store_count"]
    /\ UNCHANGED <<monkeyVars, tdecision, tcalls, ttrue>>
    /\ ThreadsOnly

\* self.failure_count += 1, the store
StoreCount(t) ==
    /\ tpc[t] = "store_count"
    /\ failure_count' = CountFailure(treg[t], TRUE)
    /\ tpc' = [tpc EXCEPT ![t] = "return"]
    /\ UNCHANGED <<failure_rate, total_requests, treg, tdecision, tcalls, ttrue>>
    /\ ThreadsOnly

\* return should_fail
Return(t) ==
    /\ tpc[t] = "return"
    /\ tcalls' = [tcalls EXCEPT ![t] = @ + 1]
    /\ ttrue' = [ttrue EXCEPT ![t] = @ + (IF tdecision[t] THEN 1 ELSE 0)]
    /\ tpc' = [tpc EXCEPT ![t] = "idle"]
    /\ UNCHANGED <<monkeyVars, treg, tdecision>>
    /\ ThreadsOnly

ThreadsStep ==
    \E t \in Threads :
        \/ LoadTotal(t)
        \/ StoreTotal(t)
        \/ Draw(t)
        \/ LoadCount(t)
        \/ StoreCount(t)
        \/ Return(t)

\* ------------------------------------------------------ calculate_metrics
\* The keys of an outcome dict that calculate_metrics reads.
OutcomeKeys == {"success", "response_time"}

\* An outcome dict: any of the two keys may be missing.  Latencies are whole
\* numbers of a time unit; the statistics are their exact values.
MetricOutcomes ==
    {[k \in keys |-> IF k = "success" THEN s ELSE t] :
        keys \in SUBSET OutcomeKeys, s \in BOOLEAN, t \in 0..MaxLatency}

\* calculate_metrics(results)
MetricsStart ==
    /\ outcomes \in UNION {[1..n -> MetricOutcomes] : n \in 0..MaxOutcomes}
    /\ mpc = "called"
    /\ metrics = <<>>

\* sum(1 for r in results if r.get("success", False))
SuccessfulRequests(recorded) ==
    Cardinality({i \in DOMAIN recorded : Get(recorded[i], "success", FALSE)})

\* A variant that reports the fraction of successes.
SuccessRateAsFraction(successful, total) ==
    IF total > 0 THEN Ratio(successful, total) ELSE Zero

\* (successful_requests / total_requests * 100) if total_requests > 0 else 0
SuccessRate(successful, total) ==
    IF total > 0 THEN Ratio(successful * 100, total) ELSE Zero

\* A variant that takes the latency of every outcome that carries one.
TimedWhateverTheOutcome(r) == "response_time" \in DOMAIN r

\* if r.get("success", False) and "response_time" in r
Timed(r) == Get(r, "success", FALSE) /\ "response_time" \in DOMAIN r

\* [r.get("response_time", 0) for r in results if ...]
ResponseTimes(recorded) ==
    LET timed == SelectSeq(recorded, Timed)
    IN  [i \in DOMAIN timed |-> Get(timed[i], "response_time", 0)]

\* sorted(data)
Sorted(data) ==
    [i \in DOMAIN data |->
        CHOOSE v \in {data[j] : j \in DOMAIN data} :
            /\ Cardinality({j \in DOMAIN data : data[j] <= v}) >= i
            /\ Cardinality({j \in DOMAIN data : data[j] < v}) < i]

Whole(n) == Ratio(n, 1)

\* min(data)
Smallest(data) ==
    CHOOSE v \in {data[j] : j \in DOMAIN data} :
        \A j \in DOMAIN data : v <= data[j]

\* max(data)
Largest(data) ==
    CHOOSE v \in {data[j] : j \in DOMAIN data} :
        \A j \in DOMAIN data : v >= data[j]

RECURSIVE Total(_, _)
Total(data, n) == IF n = 0 THEN 0 ELSE data[n] + Total(data, n - 1)

\* A variant that does not divide the total by the number of samples.
MeanUndivided(data) == Whole(Total(data, Len(data)))

\* statistics.mean(data)
Mean(data) == Ratio(Total(data, Len(data)), Len(data))

\* statistics.median(data)
Median(data) ==
    LET sorted == Sorted(data)
        n == Len(data)
        i == n \div 2
    IN  IF n % 2 = 1 THEN Whole(sorted[i + 1])
        ELSE Ratio(sorted[i] + sorted[i + 1], 2)

\* statistics.quantiles(data, n=n)[i - 1], method 'exclusive'
Quantile(data, n, i) ==
    LET sorted == Sorted(data)
        ld == Len(data)
        m == ld + 1
        scaled == (i * m) \div n
        j == IF scaled < 1 THEN 1 ELSE IF scaled > ld - 1 THEN ld - 1 ELSE scaled
        delta == i * m - j * n
    IN  Ratio(sorted[j] * (n - delta) + sorted[j + 1] * delta, n)

\* statistics.quantiles(rt, n=n)[n - 2] if len(rt) > 1 else rt[0]
Percentile(data, n) ==
    IF Len(data) > 1 THEN Quantile(data, n, n - 1) ELSE Whole(data[1])

CountKeys == {"total_requests", "successful_requests", "failed_requests",
              "success_rate"}
LatencyKeys == {"min_response_time", "max_response_time", "avg_response_time",
                "median_response_time", "p95_response_time",
                "p99_response_time"}

\* metrics = {"total_requests": ..., ..., "success_rate": ...}
Counts(recorded) ==
    LET total == Len(recorded)
        successful == SuccessfulRequests(recorded)
    IN  [k \in CountKeys |->
            CASE k = "total_requests" -> total
              [] k = "successful_requests" -> successful
              [] k = "failed_requests" -> total - successful
              [] k = "success_rate" -> SuccessRate(successful, total)]

\* metrics.update({"min_response_time": ..., ..., "p99_response_time": ...})
Latencies(data) ==
    [k \in LatencyKeys |->
        CASE k = "min_response_time" -> Whole(Smallest(data))
          [] k = "max_response_time" -> Whole(Largest(data))
          [] k = "avg_response_time" -> Mean(data)
          [] k = "median_response_time" -> Median(data)
          [] k = "p95_response_time" -> Percentile(data, 20)
          [] k = "p99_response_time" -> Percentile(data, 100)]

\* The body of calculate_metrics.
CalculateMetrics ==
    /\ mpc = "called"
    /\ LET response_times == ResponseTimes(outcomes)
       IN  metrics' = IF response_times # <<>>
                      THEN Counts(outcomes) @@ Latencies(response_times)
                      ELSE Counts(outcomes)
    /\ mpc' = "returned"
    /\ UNCHANGED outcomes
    /\ MetricsOnly

\* calculate_metrics(results) on the list generate_concurrent_requests
\* returned.
MeasurePool ==
    /\ pc = "returned"
    /\ mpc = "idle"
    /\ outcomes' = results
    /\ mpc' = "called"
    /\ UNCHANGED metrics
    /\ UNCHANGED <<poolVars, retryVars, sustVars, monkeyVars, callVars,
                   threadVars, rampVars, helperVars>>

\* ----------------------------------------------------- wait_for_condition
\* What condition_func() ends with.
CheckOutcomes == {Returned("True"), Returned("False"),
                  Raised(Exc("ConnectionError", "Failed to establish connection"))}

\* The error_message arguments: the default None, the empty string, a text.
ErrorMessages == {None, "", "condition not met"}

\* bool(x) of None or a string
Truthy(x) == x \notin {None, "", "False"}

Checked(o, t) == [ev |-> "check", out |-> o, at |-> t, secs |-> 0]
Waited(d, t) == [ev |-> "sleep", out |-> NoOutcome, at |-> t, secs |-> d]

\* wait_for_condition(condition_func, timeout, interval, error_message):
\* start_time = time.time()
WaitStart ==
    /\ wait_timeout \in 0..MaxTimeout
    /\ wait_interval \in 0..MaxInterval
    /\ error_message \in ErrorMessages
    /\ wpc = "test"
    /\ start_time = 0
    /\ wclock = 0
    /\ wtrace = <<>>
    /\ wresult = NoOutcome

\* while time.time() - start_time < timeout:
WaitTest ==
    /\ wpc = "test"
    /\ IF wclock - start_time < wait_timeout
       THEN /\ Len(SelectSeq(wtrace, LAMBDA e : e.ev = "check")) < MaxChecks
            /\ wpc' = "check"
       ELSE wpc' = "timed_out"
    /\ UNCHANGED <<wait_timeout, wait_interval, error_message, start_time,
                   wclock, wtrace, wresult>>
    /\ WaitOnly

\* try: if condition_func(): return True
\* except Exception as e: logger.debug(...)
WaitCheck ==
    /\ wpc = "check"
    /\ \E o \in CheckOutcomes, d \in 0..MaxCheckTicks :
          /\ wclock' = wclock + d
          /\ wtrace' = Append(wtrace, Checked(o, wclock + d))
          /\ IF o.kind = "return" /\ Truthy(o.val)
             THEN /\ wresult' = Returned("True")
                  /\ wpc' = "returned"
             ELSE /\ o.kind = "raise" => IsInstance(o.exc, {"Exception"})
                  /\ wpc' = "sleep"
                  /\ UNCHANGED wresult
    /\ UNCHANGED <<wait_timeout, wait_interval, error_message, start_time>>
    /\ WaitOnly

\* time.sleep(interval)
WaitSleep ==
    /\ wpc = "sleep"
    /\ wclock' = wclock + wait_interval
    /\ wtrace' = Append(wtrace, Waited(wait_interval, wclock + wait_interval))
    /\ wpc' = "test"
    /\ UNCHANGED <<wait_timeout, wait_interval, error_message, start_time,
                   wresult>>
    /\ WaitOnly

\* if error_message: raise TimeoutError(error_message)
\* return False
WaitTimedOut ==
    /\ wpc = "timed_out"
    /\ IF Truthy(error_message)
       THEN /\ wresult' = Raised(Exc("TimeoutError", error_message))
            /\ wpc' = "raised"
       ELSE /\ wresult' = Returned("False")
            /\ wpc' = "returned"
    /\ UNCHANGED <<wait_timeout, wait_interval, error_message, start_time,
                   wclock, wtrace>>
    /\ WaitOnly

WaitStep ==
    \/ WaitTest
    \/ WaitCheck
    \/ WaitSleep
    \/ WaitTimedOut

\* ------------------------------------------------- APIClient._retry_request
\* response.status of the responses the server gives.
Statuses == {200, 404, 500, 503}

\* if retry_on_status is None: retry_on_status = [500, 502, 503, 504]
\* (the argument is <<>> for None and <<codes>> for a list)
RetryOnStatus(arg) == IF arg = <<>> THEN {500, 502, 503, 504} ELSE arg[1]

\* The retry_on_status arguments: None, the empty list, lists of codes.
StatusArgs == {<<>>, <<{}>>, <<{404}>>, <<{500, 503}>>}

\* What self.api_context.request(...) ends with: a response, whose body is
\* text (JSON or not) or bytes that are no text, or an exception.
ApiResponse(status, body) ==
    [kind |-> "response", status |-> status, body |-> body, exc |-> NoExc]
ApiRaised(e) == [kind |-> "raise", status |-> 0, body |-> "none", exc |-> e]
ApiNone == [kind |-> "none", status |-> 0, body |-> "none", exc |-> NoExc]
Bodies == {"json", "text", "binary"}
ApiOutcomes ==
    {ApiResponse(st, b) : st \in Statuses, b \in Bodies}
        \cup {ApiRaised(Exc("TimeoutError", "Timeout 30000ms exceeded"))}

\* self._log_response(response): response.json() is evaluated for the debug
\* line; when it raises, response.text() is, which decodes the body and
\* raises in its turn when the body is no text.  NoExc: the call returns.
LogResponse(o) ==
    IF o.body = "binary"
    THEN Exc("UnicodeDecodeError", "'utf-8' codec can't decode byte")
    ELSE NoExc

Requested(i, o) == [ev |-> "request", attempt |-> i, out |-> o, secs |-> 0]
Backoff(i, d) == [ev |-> "sleep", attempt |-> i, out |-> ApiNone, secs |-> d]

\* APIClient(api_context, max_retries, retry_delay)._retry_request(method, url,
\* retry_on_status): last_exception = None
ApiStart ==
    /\ api_max_retries \in 0..MaxRetries
    /\ retry_delay \in 0..MaxDelay
    /\ retry_on_status \in {RetryOnStatus(arg) : arg \in StatusArgs}
    /\ qpc = "loop"
    /\ api_attempt = 0
    /\ api_last_exception = NoExc
    /\ api_trace = <<>>
    /\ api_result = ApiNone

\* response.status in retry_on_status and attempt < self.max_retries - 1
ShouldRetry(status, codes, i, retries) == status \in codes /\ i < retries - 1

\* self.retry_delay * (attempt + 1)
BackoffDelay(d, i) == d * (i + 1)

\* One pass of the for loop up to its sleep, return or raise.
ApiRequest ==
    /\ qpc = "loop"
    /\ api_attempt < api_max_retries
    /\ \E o \in ApiOutcomes :
          /\ api_trace' = Append(api_trace, Requested(api_attempt, o))
          /\ IF o.kind = "response" /\ LogResponse(o) = NoExc
             THEN /\ IF ShouldRetry(o.status, retry_on_status, api_attempt,
                                    api_max_retries)
                     THEN qpc' = "sleep" /\ UNCHANGED api_result
                     ELSE qpc' = "returned" /\ api_result' = o
                  /\ UNCHANGED api_last_exception
             ELSE \* except Exception as e
                  LET e == IF o.kind = "raise" THEN o.exc ELSE LogResponse(o)
                  IN  /\ IsInstance(e, {"Exception"})
                      /\ api_last_exception' = e
                      /\ IF api_attempt < api_max_retries - 1
                         THEN qpc' = "sleep" /\ UNCHANGED api_result
                         ELSE qpc' = "raised" /\ api_result' = ApiRaised(e)
    /\ UNCHANGED <<api_max_retries, retry_delay, retry_on_status, api_attempt>>
    /\ ApiOnly

\* time.sleep(self.retry_delay * (attempt + 1)); the next pass of the loop
ApiSleep ==
    /\ qpc = "sleep"
    /\ api_trace' = Append(api_trace,
                           Backoff(api_attempt, BackoffDelay(retry_delay, api_attempt)))
    /\ api_attempt' = api_attempt + 1
    /\ qpc' = "loop"
    /\ UNCHANGED <<api_max_retries, retry_delay, retry_on_status,
                   api_last_exception, api_result>>
    /\ ApiOnly

\* The loop is exhausted: if last_exception: raise last_exception; else the
\* function ends and returns None.
ApiLoopEnd ==
    /\ qpc = "loop"
    /\ api_attempt >= api_max_retries
    /\ IF api_last_exception # NoExc
       THEN qpc' = "raised" /\ api_result' = ApiRaised(api_last_exception)
       ELSE qpc' = "returned" /\ api_result' = ApiNone
    /\ UNCHANGED <<api_max_retries, retry_delay, retry_on_status, api_attempt,
                   api_last_exception, api_trace>>
    /\ ApiOnly

ApiStep ==
    \/ ApiRequest
    \/ ApiSleep
    \/ ApiLoopEnd

\* ------------------------------------------------ generate_async_requests
\* A Python object by its class and its text; an exception object is Exc.
Object(class, text) == [type |-> class, msg |-> text]
NoneObject == Object("NoneType", "None")

\* What the coroutine of a task ends with: it returns an object (a payload,
\* a report of a failure, or an exception object it caught) or raises.
AsyncReturned(obj) == [kind |-> "return", obj |-> obj]
AsyncRaised(e) == [kind |-> "raise", obj |-> e]
AsyncPending == [kind |-> "none", obj |-> NoneObject]
AsyncOutcomes ==
    {AsyncReturned(Object("str", "data")),
     AsyncReturned(Object("dict", "{'success': False}")),
     AsyncReturned(Exc("ValueError", "not found")),
     AsyncRaised(Exc("ConnectionError", "Failed to establish connection"))}

Tasks == 1..async_requests

\* generate_async_requests(request_func, num_requests): results = []
AsyncStart ==
    /\ async_requests \in 0..MaxRequests
    /\ apc = "create"
    /\ tstate = [i \in 1..async_requests |-> "none"]
    /\ toutcome = [i \in 1..async_requests |-> AsyncPending]
    /\ finish_order = <<>>
    /\ responses = <<>>
    /\ async_results = <<>>
    /\ araised = NoExc

\* tasks = [request_func(*args, **kwargs) for _ in range(num_requests)]:
\* the coroutine objects are made, none runs yet.
AsyncCreate ==
    /\ apc = "create"
    /\ tstate' = [i \in Tasks |-> "created"]
    /\ apc' = "gather"
    /\ UNCHANGED <<async_requests, toutcome, finish_order, responses,
                   async_results, araised>>
    /\ AsyncOnly

\* asyncio.gather(*tasks, return_exceptions=True): every coroutine is wrapped
\* in a task and scheduled on the event loop.
AsyncGather ==
    /\ apc = "gather"
    /\ tstate' = [i \in Tasks |-> "scheduled"]
    /\ apc' = "await"
    /\ UNCHANGED <<async_requests, toutcome, finish_order, responses,
                   async_results, araised>>
    /\ AsyncOnly

\* The event loop runs a task to its end, in any order.
TaskFinish(i) ==
    /\ apc = "await"
    /\ tstate[i] = "scheduled"
    /\ \E o \in AsyncOutcomes : toutcome' = [toutcome EXCEPT ![i] = o]
    /\ tstate' = [tstate EXCEPT ![i] = "done"]
    /\ finish_order' = Append(finish_order, i)
    /\ UNCHANGED <<async_requests, apc, responses, async_results, araised>>
    /\ AsyncOnly

\* A variant of gather that lists the results as the tasks end.
GatheredAsCompleted(outs, order) == [k \in DOMAIN order |-> outs[order[k]].obj]

\* The list gather returns with return_exceptions=True: for each awaitable,
\* in the order given, the object returned or the exception object raised.
Gathered(outs, order) == [i \in DOMAIN outs |-> outs[i].obj]

\* responses = await asyncio.gather(...): resumes when every task is done
AsyncResume ==
    /\ apc = "await"
    /\ \A i \in Tasks : tstate[i] = "done"
    /\ responses' = Gathered(toutcome, finish_order)
    /\ apc' = "collect"
    /\ UNCHANGED <<async_requests, tstate, toutcome, finish_order,
                   async_results, araised>>
    /\ AsyncOnly

\* if isinstance(response, Exception): {"success": False, "result": None,
\* "error": str(response)} else: {"success": True, "result": response,
\* "error": None}
AsyncRecord(response) ==
    IF IsInstance(response, {"Exception"})
    THEN [success |-> FALSE, result |-> NoneObject, error |-> Str(response)]
    ELSE [success |-> TRUE, result |-> response, error |-> None]

\* for response in responses: results.append(...)
AsyncCollect ==
    /\ apc = "collect"
    /\ async_results' = [i \in DOMAIN responses |-> AsyncRecord(responses[i])]
    /\ apc' = "log"
    /\ UNCHANGED <<async_requests, tstate, toutcome, finish_order, responses,
                   araised>>
    /\ AsyncOnly

\* duration = end_time - start_time; logger.info(f"... {num_requests/duration}
\* ..."); return results
AsyncLogAndReturn ==
    /\ apc = "log"
    /\ \E duration_is_zero \in BOOLEAN :
          IF duration_is_zero
          THEN /\ apc' = "raised"
               /\ araised' = Exc("ZeroDivisionError", "float division by zero")
          ELSE /\ apc' = "returned"
               /\ UNCHANGED araised
    /\ UNCHANGED <<async_requests, tstate, toutcome, finish_order, responses,
                   async_results>>
    /\ AsyncOnly

AsyncStep ==
    \/ AsyncCreate
    \/ AsyncGather
    \/ \E i \in Tasks : TaskFinish(i)
    \/ AsyncResume
    \/ AsyncCollect
    \/ AsyncLogAndReturn

\* ------------------------------------------------------- specifications
\* A routine that is not called: its variables at rest.
PoolIdle ==
    /\ num_requests = 0 /\ max_workers = 0 /\ pc = "idle" /\ submitted = 0
    /\ fstate = [f \in Futures |-> "none"]
    /\ foutcome = [f \in Futures |-> NoOutcome]
    /\ work_queue = <<>> /\ finished_set = {} /\ finished_futures = <<>>
    /\ pending = {} /\ results = <<>> /\ yielded = <<>> /\ completed = <<>>
    /\ done_at_call = {} /\ raised = NoExc

RetryIdle ==
    /\ max_retries = 0 /\ delay = 0 /\ exceptions = {} /\ rpc = "idle"
    /\ attempt = 0 /\ last_exception = NoExc /\ trace = <<>>
    /\ retval = None /\ rraised = NoExc

SustainedIdle ==
    /\ requests_per_second = 0 /\ duration = 0 /\ instant_op = FALSE
    /\ spc = "idle" /\ now = 0
    /\ interval = 0 /\ end_time = 0 /\ start_request = 0
    /\ all_results = <<>> /\ sraised = NoExc

RampIdle ==
    /\ initial_load = 0 /\ final_load = 0 /\ ramp_duration = 0
    /\ step_interval = 0 /\ upc = "idle" /\ num_steps = 0
    /\ load_increment = FloatZero /\ current_load = FloatZero /\ step = 0
    /\ ramp_results = <<>> /\ ramp_trace = <<>> /\ uraised = NoExc

MetricsIdle == outcomes = <<>> /\ mpc = "idle" /\ metrics = <<>>

WaitIdle ==
    /\ wait_timeout = 0 /\ wait_interval = 0 /\ error_message = None
    /\ wpc = "idle" /\ start_time = 0 /\ wclock = 0
    /\ wtrace = <<>> /\ wresult = NoOutcome

AsyncIdle ==
    /\ async_requests = 0 /\ apc = "idle"
    /\ tstate = <<>> /\ toutcome = <<>> /\ finish_order = <<>>
    /\ responses = <<>> /\ async_results = <<>> /\ araised = NoExc

ApiIdle ==
    /\ api_max_retries = 0 /\ retry_delay = 0 /\ retry_on_status = {}
    /\ qpc = "idle" /\ api_attempt = 0 /\ api_last_exception = NoExc
    /\ api_trace = <<>> /\ api_result = ApiNone

HelpersIdle == WaitIdle /\ AsyncIdle /\ ApiIdle

\* No ChaosMonkey is made.
ChaosIdle ==
    /\ failure_rate = 0 /\ failure_count = 0 /\ total_requests = 0
    /\ NoCall

ThreadsIdle ==
    /\ tpc = <<>> /\ treg = <<>> /\ tdecision = <<>> /\ tcalls = <<>>
    /\ ttrue = <<>>

InitPool == PoolStart /\ RetryIdle /\ SustainedIdle /\ ChaosIdle /\ ThreadsIdle
               /\ RampIdle /\ MetricsIdle /\ HelpersIdle
NextPool == PoolStep
SpecPool == InitPool /\ [][NextPool]_vars

\* The thread scheduler runs every thread that can move, and every invocation
\* ends (an Operation produces a value or fails).
SpecPoolFair ==
    /\ SpecPool
    /\ WF_vars(CallerStep)
    /\ WF_vars(StartWork)
    /\ \A f \in Futures : WF_vars(Complete(f))

InitRetry == RetryStart /\ PoolIdle /\ SustainedIdle /\ ChaosIdle /\ ThreadsIdle
                /\ RampIdle /\ MetricsIdle /\ HelpersIdle
NextRetry == RetryStep
SpecRetry == InitRetry /\ [][NextRetry]_vars

InitSustained == SustainedStart /\ PoolIdle /\ RetryIdle /\ ChaosIdle /\ ThreadsIdle
                    /\ RampIdle /\ MetricsIdle /\ HelpersIdle
NextSustained == SustainedStep
SpecSustained == InitSustained /\ [][NextSustained]_vars

\* The thread runs on, and every invocation ends.
SpecSustainedFair == SpecSustained /\ WF_vars(SustainedStep)

InitSustainedInstant == SustainedInstantStart /\ PoolIdle /\ RetryIdle
                           /\ ChaosIdle /\ ThreadsIdle /\ RampIdle
                           /\ MetricsIdle /\ HelpersIdle
SpecSustainedInstant == InitSustainedInstant /\ [][NextSustained]_vars

InitChaos == MonkeyStart /\ NoCall /\ ThreadsIdle /\ PoolIdle /\ RetryIdle
                /\ SustainedIdle /\ RampIdle /\ MetricsIdle /\ HelpersIdle
NextChaos == ChaosStep
SpecChaos == InitChaos /\ [][NextChaos]_vars

InitChaosThreads == MonkeyStart /\ ThreadsStart /\ NoCall /\ PoolIdle
                       /\ RetryIdle /\ SustainedIdle /\ RampIdle
                       /\ MetricsIdle /\ HelpersIdle
NextChaosThreads == ThreadsStep
SpecChaosThreads == InitChaosThreads /\ [][NextChaosThreads]_vars

InitRamp == RampStart /\ PoolIdle /\ RetryIdle /\ SustainedIdle /\ ChaosIdle
               /\ ThreadsIdle /\ MetricsIdle /\ HelpersIdle
NextRamp == RampStep
SpecRamp == InitRamp /\ [][NextRamp]_vars

InitMetrics == MetricsStart /\ PoolIdle /\ RetryIdle /\ SustainedIdle
                  /\ ChaosIdle /\ ThreadsIdle /\ RampIdle /\ HelpersIdle
NextMetrics == CalculateMetrics
SpecMetrics == InitMetrics /\ [][NextMetrics]_vars

InitWait == WaitStart /\ PoolIdle /\ RetryIdle /\ SustainedIdle /\ ChaosIdle
               /\ ThreadsIdle /\ RampIdle /\ MetricsIdle /\ AsyncIdle /\ ApiIdle
NextWait == WaitStep
SpecWait == InitWait /\ [][NextWait]_vars

InitApi == ApiStart /\ PoolIdle /\ RetryIdle /\ SustainedIdle /\ ChaosIdle
              /\ ThreadsIdle /\ RampIdle /\ MetricsIdle /\ WaitIdle /\ AsyncIdle
NextApi == ApiStep
SpecApi == InitApi /\ [][NextApi]_vars

InitAsync == AsyncStart /\ PoolIdle /\ RetryIdle /\ SustainedIdle /\ ChaosIdle
                /\ ThreadsIdle /\ RampIdle /\ MetricsIdle /\ WaitIdle /\ ApiIdle
NextAsync == AsyncStep
SpecAsync == InitAsync /\ [][NextAsync]_vars

\* A load run followed by the report on its outcomes.
NextPoolMetrics == PoolStep \/ MeasurePool \/ CalculateMetrics
SpecPoolMetrics == InitPool /\ [][NextPoolMetrics]_vars

\* ------------------------------------------------------ claims C1 .. C4
CountWhere(s, flag) == Cardinality({p \in DOMAIN s : s[p].success = flag})
Pos(s, x) == CHOOSE p \in DOMAIN s : s[p] = x

\* C1: generate_concurrent_requests returns exactly num_requests outcome
\* records, each marked success or failure, so that the successful and the
\* failed ones add up to num_requests.
C1_ReturnsCountOutcomes ==
    pc = "returned" =>
        /\ Len(results) = num_requests
        /\ \A p \in DOMAIN results : results[p].success \in BOOLEAN
        /\ CountWhere(results, TRUE) + CountWhere(results, FALSE) = num_requests

C1_Witness ==
    /\ pc = "returned"
    /\ num_requests = MaxRequests
    /\ CountWhere(results, TRUE) > 0
    /\ CountWhere(results, FALSE) > 0

\* C2: an invocation that raises is recorded as exactly one failed outcome
\* (success false, result none, error the exception's description); its
\* exception never leaves the call, and every sibling is still executed and
\* recorded.
C2_RaiseIsOneFailedOutcome ==
    /\ Len(results) = Len(yielded)
    /\ \A p \in DOMAIN yielded :
          /\ \A q \in DOMAIN yielded : yielded[q] = yielded[p] => q = p
          /\ foutcome[yielded[p]].kind = "raise" =>
                results[p] = [success |-> FALSE, result |-> None,
                              error |-> foutcome[yielded[p]].exc.msg]
    /\ \A f \in Futures : foutcome[f].kind = "raise" => raised # foutcome[f].exc
    /\ pc = "returned" =>
          \A f \in 1..num_requests :
             fstate[f] = "finished" /\ f \in SeqRange(yielded)

C2_Witness ==
    /\ pc = "returned"
    /\ \E p, q \in DOMAIN yielded :
          /\ p < q
          /\ foutcome[yielded[p]].kind = "raise"
          /\ Pos(completed, yielded[p]) < Pos(completed, yielded[q])
          /\ results[q].success

\* C3: at most max_workers invocations execute at the same time, a queued
\* submission starts only when a worker is free, and every queued submission
\* is eventually executed.
C3_BoundedWorkers ==
    /\ [](Cardinality(running) <= max_workers)
    /\ [][\A f \in Futures :
             (fstate[f] = "pending" /\ fstate'[f] = "running")
                => Cardinality(running) < max_workers]_vars
    /\ \A f \in Futures :
          (fstate[f] = "pending") ~> (fstate[f] \in {"running", "finished"})

C3_Witness ==
    /\ max_workers >= 1
    /\ Cardinality(running) = max_workers
    /\ work_queue # <<>>
    /\ \E f \in Futures : fstate[f] = "finished"

\* C4 (as claimed): whenever invocation A completes before invocation B,
\* A's outcome precedes B's in the returned list.
C4_CompletionOrder ==
    \A p, q \in DOMAIN yielded :
       Pos(completed, yielded[p]) < Pos(completed, yielded[q]) => p < q

\* C4 (amended): whenever invocation A completes before invocation B and the
\* two had not both completed when as_completed was called, A's outcome
\* precedes B's in the returned list; the order is not the order of
\* submission.
C4_OrderOfAsCompleted ==
    \A p, q \in DOMAIN yielded :
       ( /\ Pos(completed, yielded[p]) < Pos(completed, yielded[q])
         /\ ~(yielded[p] \in done_at_call /\ yielded[q] \in done_at_call) )
       => p < q

C4_Witness ==
    /\ pc = "returned"
    /\ \E p, q \in DOMAIN yielded :
          /\ p < q
          /\ yielded[p] > yielded[q]
          /\ yielded[p] \notin done_at_call

\* ------------------------------------------------------ claims C5 .. C9
Calls == SelectSeq(trace, LAMBDA t : t.ev = "call")
InvocationCount == Len(Calls)
Sleeps == SelectSeq(trace, LAMBDA t : t.ev = "sleep")
Terminal == rpc \in {"returned", "raised"}

\* A call that failed with an error of one of the classes in `exceptions`.
RetryableFailure(t) ==
    /\ t.ev = "call"
    /\ t.out.kind = "raise"
    /\ IsInstance(t.out.exc, exceptions)

AllCallsFailedRetryably ==
    \A i \in DOMAIN trace : trace[i].ev = "call" => RetryableFailure(trace[i])

\* C5: with max_retries = n >= 1 and an operation that fails with a retryable
\* error on every attempt, retry_on_failure invokes it exactly n times (never
\* more than max_retries times) and then raises the last attempt's failure.
C5_ExhaustionRaisesLastFailure ==
    max_retries >= 1 =>
        /\ InvocationCount <= max_retries
        /\ (Terminal /\ AllCallsFailedRetryably) =>
              /\ rpc = "raised"
              /\ InvocationCount = max_retries
              /\ trace[Len(trace)].ev = "call"
              /\ rraised = trace[Len(trace)].out.exc

C5_Witness ==
    /\ rpc = "raised"
    /\ max_retries = MaxRetries
    /\ InvocationCount = MaxRetries
    /\ AllCallsFailedRetryably
    /\ Calls[1].out.exc # Calls[MaxRetries].out.exc
    /\ rraised = Calls[MaxRetries].out.exc

\* C6: when the operation first succeeds on attempt k <= max_retries, all
\* earlier attempts failing with retryable errors, retry_on_failure returns
\* that attempt's value after exactly k invocations and makes no further
\* attempt.
C6_SuccessReturnsAtOnce ==
    /\ \A i \in DOMAIN trace :
          (trace[i].ev = "call" /\ trace[i].out.kind = "return")
             => /\ i = Len(trace)
                /\ rpc = "returned"
                /\ retval = trace[i].out.val
    /\ (rpc = "returned" /\ InvocationCount > 0) =>
          /\ Calls[InvocationCount].out.kind = "return"
          /\ InvocationCount <= max_retries
          /\ \A i \in 1..(InvocationCount - 1) : RetryableFailure(Calls[i])
    /\ (AllCallsFailedRetryably /\ InvocationCount < max_retries) => ~Terminal

C6_Witness ==
    /\ rpc = "returned"
    /\ max_retries = MaxRetries
    /\ InvocationCount = MaxRetries
    /\ retval = "data"
    /\ \A i \in 1..(MaxRetries - 1) : RetryableFailure(Calls[i])

\* C7: a failure whose kind is not in the retryable set propagates at the
\* attempt where it occurs: no invocation and no wait follows, whatever
\* retry budget remains.
C7_NonRetryablePropagates ==
    \A i \in DOMAIN trace :
       ( /\ trace[i].ev = "call"
         /\ trace[i].out.kind = "raise"
         /\ ~IsInstance(trace[i].out.exc, exceptions) )
       => /\ i = Len(trace)
          /\ rpc = "raised"
          /\ rraised = trace[i].out.exc

C7_Witness ==
    /\ rpc = "raised"
    /\ InvocationCount = 2
    /\ InvocationCount < max_retries
    /\ RetryableFailure(Calls[1])
    /\ ~IsInstance(Calls[2].out.exc, exceptions)
    /\ rraised = Calls[2].out.exc

C9_BadRetryCountRejected ==
    max_retries < 1 => (InvocationCount = 0 /\ rpc # "returned")

\* ------------------------------------------------------------ claim C10
\* C10 (as claimed): sustained_load called with requests_per_second <= 0
\* raises at call entry and invokes the operation zero times.
C10_NonPositiveRateRejected ==
    requests_per_second <= 0 =>
        /\ spc \in {"enter", "raised"}
        /\ all_results = <<>>

\* ------------------------------------------------------------ claim C11
\* The call at rest is a finished call of the given method.
Finished(kind) == cpc = "idle" /\ ckind = kind

\* C11: every call of should_fail increases total_requests by exactly 1 and
\* failure_count by exactly 1 if and only if it returns true; so
\* total_requests is the number of should_fail calls made, failure_count the
\* number of them that returned true, and 0 <= failure_count <= total_requests.
C11_CountersFollowDecisions ==
    /\ Finished("should_fail") =>
          /\ total_requests = total_before + 1
          /\ cresult \in {Returned("True"), Returned("False")}
          /\ failure_count =
                failures_before + (IF cresult = Returned("True") THEN 1 ELSE 0)
    /\ total_requests = decisions
    /\ failure_count = positives
    /\ 0 <= failure_count /\ failure_count <= total_requests

C11_Witness ==
    /\ Finished("should_fail")
    /\ cresult = Returned("False")
    /\ total_requests = MaxCalls
    /\ failure_count = MaxCalls - 1

\* ------------------------------------------------------------ claim C12
\* C12 (as claimed): each inject_failure call advances total_requests by
\* exactly 1 and failure_count by at most 1, whatever the failure kind (Random
\* and the default kind included).
C12_OneDecisionPerInjection ==
    Finished("inject_failure") =>
        /\ total_requests = total_before + 1
        /\ failure_count <= failures_before + 1

\* ------------------------------------------------------------ claim C13
\* What the finished call did, by kind of event.
Events(kind) == SelectSeq(cevents, LAMBDA e : e.ev = kind)

\* The call's first failure decision was positive.
DecidedToFail == cevents # <<>> /\ cevents[1] = Decided(TRUE)

\* The synthetic failures of the three kinds Random chooses from.
RandomFailures ==
    {Raised(Exc("TimeoutError", "Network request timed out")),
     Raised(Exc("ConnectionError", "Failed to establish connection")),
     Raised(Exc("Exception", "Service unavailable (503)"))}

\* C13 (as claimed): with kind Random, given or by default, a positive failure
\* decision always ends in a synthetic failure of NetworkTimeout,
\* ConnectionFailure or ServiceUnavailable, and the operation is not invoked.
C13_RandomEndsInSyntheticFailure ==
    (Finished("inject_failure") /\ arg_type \in {None, "random"} /\ DecidedToFail) =>
        /\ cresult \in RandomFailures
        /\ Len(Events("simulate")) = 1
        /\ Events("call") = <<>>

\* ------------------------------------------------------------ claim C14
\* The call's last failure decision.
Decisions == Events("should_fail")
LastDecision == Decisions[Len(Decisions)].flag

\* C14 (as claimed): when the failure decision is negative, inject_failure
\* runs the operation exactly once and ends as the operation ends (its result
\* returned, or its own error raised), with no wait and no synthetic failure,
\* for every failure kind.
C14_NegativeDecisionRunsOperation ==
    (Finished("inject_failure") /\ ~LastDecision) =>
        /\ Len(Events("call")) = 1
        /\ Events("call")[1].out \in ChaosOutcomes
        /\ cresult = Events("call")[1].out
        /\ Events("sleep") = <<>>
        /\ Events("simulate") = <<>>

\* ------------------------------------------------------------ claim C15
\* C15 (as claimed): with failure_rate 1.0 and kind SlowResponse with a delay
\* given by the caller, inject_failure on an operation that takes no argument
\* waits the delay, then runs the operation exactly once and ends as the
\* operation ends; no other error is raised.
C15_SlowResponseStillRunsOperation ==
    (/\ Finished("inject_failure")
     /\ failure_rate = RandomScale
     /\ arg_type = "slow_response"
     /\ "delay" \in DOMAIN kwargs
     /\ ~accepts_kwargs) =>
        /\ Len(cevents) = 3
        /\ cevents[2] = Slept(kwargs["delay"])
        /\ cevents[3].ev = "call"
        /\ cevents[3].out \in ChaosOutcomes
        /\ cresult = cevents[3].out

\* ------------------------------------------------------------ claim C16
\* The timeout the caller configured, or the default.
ConfiguredTimeout ==
    IF "timeout_duration" \in DOMAIN kwargs THEN kwargs["timeout_duration"]
                                            ELSE DefaultTimeout

\* C16: on a positive failure decision with kind NetworkTimeout,
\* inject_failure waits timeout_duration and only then raises the timeout
\* error; the wait is never skipped and the operation is never invoked.
C16_TimeoutWaitsThenRaises ==
    (Finished("inject_failure") /\ ftype = "network_timeout" /\ LastDecision) =>
        /\ Len(cevents) >= 3
        /\ cevents[Len(cevents) - 1] = Slept(ConfiguredTimeout)
        /\ cevents[Len(cevents)].ev = "simulate"
        /\ cresult = Raised(Exc("TimeoutError", "Network request timed out"))
        /\ Len(Events("sleep")) = 1
        /\ Len(Events("simulate")) = 1
        /\ Events("call") = <<>>

C16_Witness ==
    /\ Finished("inject_failure")
    /\ arg_type = "network_timeout"
    /\ "timeout_duration" \in DOMAIN kwargs
    /\ cevents = <<Decided(TRUE), Slept(kwargs["timeout_duration"]),
                   Synthetic(Exc("TimeoutError", "Network request timed out"))>>

\* ------------------------------------------------------------ claim C17
\* C17: on a positive failure decision with kind ConnectionFailure or
\* ServiceUnavailable, inject_failure raises the failure at once: no wait,
\* and the operation is not invoked.
C17_FastFailKinds ==
    (/\ Finished("inject_failure")
     /\ ftype \in {"connection_failure", "service_unavailable"}
     /\ LastDecision) =>
        /\ Events("sleep") = <<>>
        /\ Events("call") = <<>>
        /\ Len(Events("simulate")) = 1
        /\ cevents[Len(cevents)].ev = "simulate"
        /\ cresult =
              IF ftype = "connection_failure"
              THEN Raised(Exc("ConnectionError", "Failed to establish connection"))
              ELSE Raised(Exc("Exception", "Service unavailable (503)"))

C17_Witness ==
    /\ Finished("inject_failure")
    /\ arg_type = "connection_failure"
    /\ kwargs # <<>>
    /\ cevents = <<Decided(TRUE),
                   Synthetic(Exc("ConnectionError", "Failed to establish connection"))>>

\* ------------------------------------------------------------ claim C18
\* The results of the should_fail calls the call at hand made.
Results == {Decisions[i].flag : i \in DOMAIN Decisions}

RECURSIVE Sum(_, _)
Sum(f, S) == IF S = {} THEN 0
             ELSE LET t == CHOOSE x \in S : TRUE IN f[t] + Sum(f, S \ {t})

\* No should_fail call is in progress.
Quiescent == \A t \in Threads : tpc[t] = "idle"

\* C19 (as claimed): when workers share one ChaosMonkey no counter update is
\* lost: once N should_fail calls have returned, under any interleaving,
\* total_requests is N and failure_count is the number that returned true.
C19_NoLostUpdates ==
    (tpc # <<>> /\ Quiescent) =>
        /\ total_requests = Sum(tcalls, Threads)
        /\ failure_count = Sum(ttrue, Threads)

\* ------------------------------------------------------------ claim C20
\* C20: get_statistics returns total_requests, failure_count, failure_rate
\* and actual_failure_rate = failure_count / total_requests (0 when no
\* request was made), and changes nothing of the injector.
C20_StatisticsSnapshot ==
    Finished("get_statistics") =>
        /\ DOMAIN stats = {"total_requests", "failure_count", "failure_rate",
                           "actual_failure_rate"}
        /\ stats.total_requests = total_requests
        /\ stats.failure_count = failure_count
        /\ stats.failure_rate = failure_rate
        /\ total_requests = 0 => stats.actual_failure_rate = Zero
        /\ total_requests > 0 =>
              /\ stats.actual_failure_rate.den > 0
              /\ stats.actual_failure_rate.num * total_requests =
                    failure_count * stats.actual_failure_rate.den
        /\ total_requests = total_before
        /\ failure_count = failures_before
        /\ cevents = <<>>

C20_Witness ==
    /\ Finished("get_statistics")
    /\ stats.total_requests = MaxCalls - 1
    /\ stats.failure_count = 1
    /\ stats.failure_rate = 1
    /\ stats.actual_failure_rate = Ratio(1, MaxCalls - 1)

\* ------------------------------------------------------------ claim C21
\* C21: failure_rate is never changed after construction, whatever sequence
\* of should_fail, inject_failure, simulate_* and get_statistics calls is
\* made; only total_requests and failure_count change, and no call sets them
\* back.
C21_RateNeverMutated ==
    [][/\ failure_rate' = failure_rate
       /\ total_requests' >= total_requests
       /\ failure_count' >= failure_count]_vars

C21_Witness ==
    /\ Finished("simulate")
    /\ failure_rate = 1
    /\ total_requests = MaxCalls - 1
    /\ failure_count = 1

\* ------------------------------------------------------------ claim C22
\* The record of the latest invocation.
LastResult == all_results[Len(all_results)]

\* A record of an invocation that returned, or of one that raised.
WellFormed(r) ==
    \/ r.success /\ r.result \in Values /\ r.error = None
    \/ ~r.success /\ r.result = None
          /\ r.error \in {Str(o.exc) : o \in {x \in SustainedOutcomes : x.kind = "raise"}}

\* C22: sustained_load records an invocation that raises as one failed
\* outcome and goes on; it never raises because of an operation failure, and
\* the list holds exactly one outcome per invocation made, in invocation
\* order.
C22_FailuresAreRecorded ==
    /\ [](spc = "raised" =>
             (all_results = <<>> /\ sraised.type = "ZeroDivisionError"))
    /\ [](\A i \in DOMAIN all_results :
             /\ WellFormed(all_results[i])
             /\ i > 1 => all_results[i - 1].timestamp <= all_results[i].timestamp)
    /\ [][spc = "invoke" =>
             /\ Len(all_results') = Len(all_results) + 1
             /\ SubSeq(all_results', 1, Len(all_results)) = all_results
             /\ spc' = "sleep"
             /\ sraised' = NoExc]_vars
    /\ [][spc # "invoke" => all_results' = all_results]_vars

C22_Witness ==
    /\ spc = "returned"
    /\ Len(all_results) = 3
    /\ ~all_results[1].success
    /\ all_results[2].success
    /\ ~all_results[3].success

\* ------------------------------------------------------------ claim C23
\* sustained_load has returned or raised.
SustainedDone == spc \in {"returned", "raised"}

\* The call is followed no further.
AtResultCap ==
    spc = "check" /\ now < end_time /\ Len(all_results) >= ResultCap(instant_op)

\* C23: sustained_load tests the deadline once per loop iteration, before an
\* invocation starts: no invocation starts with the clock at or past the
\* deadline, an invocation in flight is not cut off (its outcome is recorded
\* even when it ends past the deadline), and the call ends once the clock
\* has reached the deadline.
C23_DeadlineCheckedPerIteration ==
    /\ [](spc = "invoke" => (start_request = now /\ start_request < end_time))
    /\ [][spc = "check" =>
             IF now < end_time THEN spc' = "invoke" ELSE spc' = "returned"]_vars
    /\ [][spc = "invoke" =>
             (spc' = "sleep" /\ Len(all_results') = Len(all_results) + 1)]_vars
    /\ [][spc = "sleep" => spc' = "check"]_vars
    /\ <>(SustainedDone \/ AtResultCap)

C23_Witness ==
    /\ spc = "returned"
    /\ all_results # <<>>
    /\ LastResult.timestamp > end_time

\* ------------------------------------------------------------ claim C24
\* C24: after each invocation sustained_load sleeps max(0, interval - elapsed):
\* when the invocation took less than the interval the next one starts one
\* interval after the previous one started, otherwise there is no sleep and
\* the next one starts at once.
C24_PacedByInterval ==
    /\ [][spc = "sleep" =>
             now' = IF now - start_request < interval
                    THEN start_request + interval ELSE now]_vars
    /\ [][(spc = "check" /\ spc' = "invoke" /\ all_results # <<>>) =>
             start_request' =
                 IF LastResult.timestamp - start_request < interval
                 THEN start_request + interval
                 ELSE LastResult.timestamp]_vars

C24_Witness ==
    /\ spc = "invoke"
    /\ interval > 0
    /\ Len(all_results) = 2
    /\ all_results[1].timestamp = 0
    /\ all_results[2].timestamp = interval + interval
    /\ start_request = all_results[2].timestamp

\* ------------------------------------------------------------ claim C25
\* C25: with an instantaneous operation sustained_load at rate r for
\* duration d returns r * d outcomes, so for rate 10 and duration 2 the
\* number is within 20 +/- 20%, and never below 80% of r * d.
C25_InstantOperationCount ==
    /\ Len(all_results) <= requests_per_second * duration
    /\ spc = "returned" =>
          /\ Len(all_results) = requests_per_second * duration
          /\ 5 * Len(all_results) >= 4 * requests_per_second * duration
          /\ 5 * Len(all_results) <= 6 * requests_per_second * duration

C25_Witness ==
    /\ spc = "returned"
    /\ requests_per_second = 10
    /\ duration = 2
    /\ Len(all_results) = 20

\* ------------------------------------------------------------ claim C26
\* The batches issued so far.
Issues == SelectSeq(ramp_trace, LAMBDA t : t.ev = "issue")

RECURSIVE SumOfLoads(_, _)
SumOfLoads(batches, k) ==
    IF k = 0 THEN 0 ELSE batches[k].n + SumOfLoads(batches, k - 1)

\* trunc(initial_load + i * (final_load - initial_load) / num_steps)
InterpolatedLoad(i) ==
    (initial_load * num_steps + i * (final_load - initial_load)) \div num_steps

\* C26 (as claimed): ramp_up_load runs num_steps = ramp_duration //
\* step_interval batches, step i issues exactly
\* trunc(initial_load + i * (final_load - initial_load) / num_steps)
\* invocations, and the returned list has the sum of those counts.
C26_StepLoadsInterpolated ==
    /\ \A k \in DOMAIN Issues :
          /\ Issues[k].step = k - 1
          /\ Issues[k].n = InterpolatedLoad(k - 1)
    /\ upc = "returned" =>
          /\ num_steps = ramp_duration \div step_interval
          /\ Len(Issues) = num_steps
          /\ Len(ramp_results) = SumOfLoads(Issues, Len(Issues))

\* ------------------------------------------------------------ claim C27
\* C27: ramp_up_load runs its steps one after another: the outcomes of step
\* i precede those of step i + 1 in the returned list, a batch is issued only
\* when the previous one has returned, and a sleep of step_interval is made
\* between consecutive steps and never after the last.
C27_StepsInOrder ==
    /\ \A i \in DOMAIN ramp_results :
          i > 1 => ramp_results[i - 1].step <= ramp_results[i].step
    /\ \A k \in DOMAIN ramp_trace :
          LET t == ramp_trace[k]
          IN  /\ t.ev = "issue" =>
                    IF t.step = 0 THEN k = 1
                    ELSE /\ k > 1
                         /\ ramp_trace[k - 1] = RampSlept(t.step - 1, step_interval)
              /\ t.ev = "done" =>
                    (k > 1 /\ ramp_trace[k - 1] = BatchIssued(t.step, t.n))
              /\ t.ev = "sleep" =>
                    /\ k > 1
                    /\ ramp_trace[k - 1].ev = "done"
                    /\ ramp_trace[k - 1].step = t.step
                    /\ t.step < num_steps - 1
    /\ upc = "returned" =>
          /\ ramp_trace # <<>>
          /\ ramp_trace[Len(ramp_trace)].ev = "done"
          /\ ramp_trace[Len(ramp_trace)].step = num_steps - 1
          /\ Len(SelectSeq(ramp_trace, LAMBDA t : t.ev = "sleep")) = num_steps - 1

C27_Witness ==
    /\ upc = "returned"
    /\ num_steps = 3
    /\ step_interval = MaxStepInterval
    /\ ramp_results # <<>>
    /\ ramp_results[1].step = 0
    /\ ramp_results[Len(ramp_results)].step = 2

\* ------------------------------------------------------------ claim C28
\* C28 (as claimed): ramp_up_load ramps the load from initial_load to
\* final_load: the first step issues initial_load requests and the last step
\* issues final_load requests.
C28_RampReachesFinalLoad ==
    upc = "returned" =>
        /\ Issues # <<>>
        /\ Issues[1].n = initial_load
        /\ Issues[Len(Issues)].n = final_load

\* ------------------------------------------------------------ claim C29
\* The outcomes whose success entry is true.
Succeeded ==
    {i \in DOMAIN outcomes :
        "success" \in DOMAIN outcomes[i] /\ outcomes[i].success}

\* C29: for every outcome sequence calculate_metrics reports total_requests
\* = its length, successful_requests = the number of outcomes with success
\* true, failed_requests = total - successful, and success_rate =
\* successful / total * 100, which is 0 for the empty sequence.
C29_CountsAndRate ==
    mpc = "returned" =>
        /\ CountKeys \subseteq DOMAIN metrics
        /\ metrics["total_requests"] = Len(outcomes)
        /\ metrics["successful_requests"] = Cardinality(Succeeded)
        /\ metrics["failed_requests"] = Len(outcomes) - Cardinality(Succeeded)
        /\ metrics["successful_requests"] + metrics["failed_requests"]
              = metrics["total_requests"]
        /\ LET rate == metrics["success_rate"]
           IN  IF outcomes = <<>>
               THEN rate.num = 0
               ELSE rate.num * Len(outcomes)
                      = Cardinality(Succeeded) * 100 * rate.den

C29_Witness ==
    /\ mpc = "returned"
    /\ Len(outcomes) = MaxOutcomes
    /\ Cardinality(Succeeded) = MaxOutcomes - 1
    /\ \E i \in DOMAIN outcomes : "success" \notin DOMAIN outcomes[i]
    /\ metrics["failed_requests"] = 1

\* ------------------------------------------------------------ claim C30
\* The latencies of the successful outcomes that carry one, in order.
Samples ==
    LET ok == SelectSeq(outcomes,
                        LAMBDA r : /\ "success" \in DOMAIN r
                                   /\ r.success
                                   /\ "response_time" \in DOMAIN r)
    IN  [i \in DOMAIN ok |-> ok[i].response_time]

\* C30: calculate_metrics computes the latency statistics only from the
\* outcomes that are successful and carry a response_time: the latency
\* fields are those of these samples alone, whatever latencies the failed
\* outcomes carry, and when there is no such outcome all six latency fields
\* are absent from the report.
C30_LatenciesOfSuccessesOnly ==
    mpc = "returned" =>
        IF Samples = <<>>
        THEN DOMAIN metrics \cap LatencyKeys = {}
        ELSE /\ LatencyKeys \subseteq DOMAIN metrics
             /\ [k \in LatencyKeys |-> metrics[k]] = Latencies(Samples)
             /\ \E i \in DOMAIN Samples :
                   metrics["min_response_time"] = Whole(Samples[i])
             /\ \E i \in DOMAIN Samples :
                   metrics["max_response_time"] = Whole(Samples[i])
             /\ \A i \in DOMAIN Samples :
                   /\ metrics["min_response_time"].num <= Samples[i]
                   /\ metrics["max_response_time"].num >= Samples[i]

C30_Witness ==
    /\ mpc = "returned"
    /\ \E i \in DOMAIN outcomes :
          /\ outcomes[i] \notin {outcomes[j] : j \in Succeeded}
          /\ "response_time" \in DOMAIN outcomes[i]
          /\ outcomes[i].response_time = MaxLatency
    /\ Len(Samples) = MaxOutcomes - 1
    /\ metrics["max_response_time"] = Whole(MaxLatency - 1)

\* ------------------------------------------------------------ claim C31
\* C31: when all N >= 1 outcomes succeed with the same latency L,
\* calculate_metrics yields success_rate = 100 and min = max = avg = L; with
\* exactly one latency sample both p95 and p99 equal that sample.
C31_UniformLatency ==
    mpc = "returned" =>
        /\ \A l \in 0..MaxLatency :
              (/\ outcomes # <<>>
               /\ \A i \in DOMAIN outcomes :
                     /\ DOMAIN outcomes[i] = OutcomeKeys
                     /\ outcomes[i].success
                     /\ outcomes[i].response_time = l)
              => /\ metrics["success_rate"] = Whole(100)
                 /\ metrics["min_response_time"] = Whole(l)
                 /\ metrics["max_response_time"] = Whole(l)
                 /\ metrics["avg_response_time"] = Whole(l)
        /\ Len(Samples) = 1 =>
              /\ metrics["p95_response_time"] = Whole(Samples[1])
              /\ metrics["p99_response_time"] = Whole(Samples[1])

C31_Witness ==
    /\ mpc = "returned"
    /\ Len(outcomes) = MaxOutcomes
    /\ Len(Samples) = MaxOutcomes
    /\ \A i \in DOMAIN Samples : Samples[i] = MaxLatency
    /\ metrics["avg_response_time"] = Whole(MaxLatency)

\* ------------------------------------------------------------ claim C36
\* a <= b, for fractions with positive denominators
AtMost(a, b) == a.num * b.den <= b.num * a.den

\* C36 (as claimed): whenever calculate_metrics reports latency fields they
\* are ordered and bounded by the samples: min <= median <= max,
\* min <= avg <= max and min <= p95 <= p99 <= max.
C36_LatenciesOrdered ==
    (mpc = "returned" /\ LatencyKeys \subseteq DOMAIN metrics) =>
        /\ AtMost(metrics["min_response_time"], metrics["median_response_time"])
        /\ AtMost(metrics["median_response_time"], metrics["max_response_time"])
        /\ AtMost(metrics["min_response_time"], metrics["avg_response_time"])
        /\ AtMost(metrics["avg_response_time"], metrics["max_response_time"])
        /\ AtMost(metrics["min_response_time"], metrics["p95_response_time"])
        /\ AtMost(metrics["p95_response_time"], metrics["p99_response_time"])
        /\ AtMost(metrics["p99_response_time"], metrics["max_response_time"])

\* ------------------------------------------------------------ claim C32
\* C32 (as claimed): every outcome the Load Generator produces carries the
\* invocation's latency, so calculate_metrics applied to the list returned
\* by generate_concurrent_requests, when it contains at least one success,
\* includes the latency fields.
C32_GeneratedOutcomesAreTimed ==
    /\ \A i \in DOMAIN results : "response_time" \in DOMAIN results[i]
    /\ (mpc = "returned" /\ \E i \in DOMAIN outcomes : outcomes[i].success)
          => LatencyKeys \subseteq DOMAIN metrics

\* ------------------------------------------------------------ claim C35
\* C35: with failure kind PartialFailure, inject_failure never raises a
\* synthetic failure: on a negative and on a positive decision alike it
\* invokes the operation exactly once and ends as that invocation ends, while
\* a positive decision still increments failure_count, so failure_count can
\* exceed the number of failures injected.
C35_PartialFailureNeverInjected ==
    (Finished("inject_failure") /\ arg_type = "partial_failure") =>
        /\ Events("simulate") = <<>>
        /\ Events("sleep") = <<>>
        /\ Len(Decisions) = 1
        /\ Len(Events("call")) = 1
        /\ cevents[Len(cevents)].ev = "call"
        /\ cresult = Events("call")[1].out
        /\ (DOMAIN kwargs = {} \/ accepts_kwargs) => cresult \in ChaosOutcomes
        /\ total_requests = total_before + 1
        /\ failure_count = failures_before + (IF LastDecision THEN 1 ELSE 0)

C35_Witness ==
    /\ Finished("inject_failure")
    /\ arg_type = "partial_failure"
    /\ kwargs = <<>>
    /\ cevents = <<Decided(TRUE), Invoked(Returned("data"))>>
    /\ cresult = Returned("data")
    /\ failure_count = MaxCalls
    /\ total_requests = MaxCalls

\* ------------------------------------------------------------ claim C33
\* C33: the static chaos helpers are independent of any injector:
\* simulate_network_partition fails with a connection error on every call and
\* simulate_cascading_failure with a generic error on every call, whatever
\* the failure_rate or counters of a ChaosMonkey, and no static helper call
\* changes total_requests or failure_count.
C33_StaticHelpersIndependent ==
    Finished("static") =>
        /\ total_requests = total_before
        /\ failure_count = failures_before
        /\ total_requests = decisions
        /\ Events("should_fail") = <<>>
        /\ arg_type = "network_partition" =>
              /\ cresult.kind = "raise"
              /\ cresult.exc = Exc("ConnectionError", "Network partition detected")
        /\ arg_type = "cascading_failure" =>
              /\ cresult.kind = "raise"
              /\ cresult.exc.type = "Exception"

C33_Witness ==
    /\ Finished("static")
    /\ arg_type = "network_partition"
    /\ failure_rate = 0
    /\ failure_count = 0
    /\ total_requests = MaxCalls - 1
    /\ cresult.kind = "raise"

\* ------------------------------------------------------------ claim C34
\* The check at position k found the condition true.
Met(k) == /\ wtrace[k].ev = "check"
          /\ wtrace[k].out \in {Returned("True")}

\* C34 (as claimed): wait_for_condition returns True at the first check
\* where condition_func returns true and makes no further check; a check that
\* raises counts as not met and polling goes on after the interval; when the
\* timeout elapses without a true check it returns False if no error_message
\* was given and raises a TimeoutError carrying error_message otherwise.
C34_PollsUntilMetOrTimeout ==
    /\ \A k \in DOMAIN wtrace :
          /\ Met(k) => /\ k = Len(wtrace)
                       /\ wpc = "returned"
                       /\ wresult = Returned("True")
          /\ (wtrace[k].ev = "check" /\ ~Met(k) /\ k < Len(wtrace)) =>
                 /\ wtrace[k + 1].ev = "sleep"
                 /\ wtrace[k + 1].secs = wait_interval
          /\ (wtrace[k].ev = "check" /\ k > 1) => wtrace[k - 1].ev = "sleep"
    /\ (wpc \in {"returned", "raised"}
          /\ \A k \in DOMAIN wtrace : ~Met(k)) =>
          /\ wclock - start_time >= wait_timeout
          /\ wresult = IF error_message = None
                       THEN Returned("False")
                       ELSE Raised(Exc("TimeoutError", error_message))

\* ------------------------------------------------------------ claim C38
\* C38 (as claimed): for every ramp_duration >= 0 and step_interval >= 1,
\* ramp_duration < step_interval included, ramp_up_load terminates normally
\* and returns the outcomes of exactly ramp_duration // step_interval batches:
\* an empty list, with no invocation of the operation, when that number is 0.
C38_ZeroStepsReturnEmpty ==
    step_interval >= 1 =>
        /\ upc # "raised"
        /\ upc = "returned" =>
              /\ Len(Issues) = ramp_duration \div step_interval
              /\ Len(ramp_results) = SumOfLoads(Issues, Len(Issues))
              /\ ramp_duration < step_interval =>
                    (ramp_results = <<>> /\ ramp_trace = <<>>)

\* ------------------------------------------------------------ claim C40
\* The requests sent so far.
Requests == SelectSeq(api_trace, LAMBDA e : e.ev = "request")

Retryable(o) == o.kind = "response" /\ o.status \in retry_on_status

\* C40 (as claimed): _retry_request sends at most max_retries requests; a response whose
\* status is not in retry_on_status is returned at once with no further
\* request; if every attempt returns a retryable status the last response is
\* returned after exactly max_retries requests; if the final attempt raises,
\* that exception propagates; before attempt k + 1 it waits retry_delay * k,
\* and it never waits after the last attempt.
C40_BoundedRetriesWithBackoff ==
    /\ Len(Requests) <= api_max_retries
    /\ \A k \in DOMAIN api_trace :
          LET e == api_trace[k]
          IN  /\ e.ev = "request" =>
                    /\ e.attempt = Len(SelectSeq(SubSeq(api_trace, 1, k - 1),
                                                 LAMBDA x : x.ev = "request"))
                    /\ e.attempt > 0 =>
                          api_trace[k - 1] =
                              Backoff(e.attempt - 1, retry_delay * e.attempt)
                    /\ (e.out.kind = "response" /\ ~Retryable(e.out)) =>
                          /\ k = Len(api_trace)
                          /\ qpc = "returned"
                          /\ api_result = e.out
              /\ e.ev = "sleep" =>
                    /\ k > 1
                    /\ api_trace[k - 1].ev = "request"
                    /\ e.attempt < api_max_retries - 1
    /\ (qpc \in {"returned", "raised"} /\ api_trace # <<>>) =>
          LET last == api_trace[Len(api_trace)]
          IN  /\ last.ev = "request"
              /\ api_result = last.out
              /\ qpc = IF last.out.kind = "raise" THEN "raised" ELSE "returned"
              /\ (\A i \in DOMAIN Requests : Retryable(Requests[i].out)) =>
                    /\ Len(Requests) = api_max_retries
                    /\ qpc = "returned"
              /\ last.out.kind = "raise" => Len(Requests) = api_max_retries

\* ------------------------------------------------------------ claim C39
\* C39: generate_async_requests returns exactly num_requests outcomes in
\* submission order (outcome i belongs to the i-th created task, whatever the
\* order in which the tasks end); a task that raises is recorded as a failed
\* outcome with its description and does not cancel or abort the other tasks.
C39_AsyncOutcomesInSubmissionOrder ==
    apc = "returned" =>
        /\ Len(async_results) = async_requests
        /\ \A i \in Tasks :
              /\ tstate[i] = "done"
              /\ toutcome[i].kind \in {"return", "raise"}
              /\ toutcome[i].kind = "raise" =>
                    /\ ~async_results[i].success
                    /\ async_results[i].error = toutcome[i].obj.msg
              /\ async_results[i].success =>
                    async_results[i].result = toutcome[i].obj
              /\ ~async_results[i].success =>
                    async_results[i].error = toutcome[i].obj.msg

C39_Witness ==
    /\ apc = "returned"
    /\ async_requests = MaxRequests
    /\ finish_order = [k \in 1..MaxRequests |-> MaxRequests + 1 - k]
    /\ toutcome[1].kind = "raise"
    /\ \A i \in 2..MaxRequests : toutcome[i] = AsyncReturned(Object("str", "data"))
    /\ ~async_results[1].success
    /\ async_results[MaxRequests].success

\* ------------------------------------------------------------ claim C37
\* C37 (as claimed): the success flag of an outcome reflects only whether the
\* invocation raised: an operation that returns normally, with any value,
\* produces an outcome with success true and that value as result (here for
\* generate_async_requests).
C37_SuccessMeansDidNotRaise ==
    apc = "returned" =>
        \A i \in Tasks :
            /\ async_results[i].success = (toutcome[i].kind = "return")
            /\ toutcome[i].kind = "return" =>
                  async_results[i].result = toutcome[i].obj

====
